---- MODULE Spec2Model ----
(***************************************************************************)
(* A model of the RobustGantt component (src/src/components/RobustGantt.jsx). *)
(*                                                                         *)
(* The source file holds two variants of the component, one after the     *)
(* other: the geometry-index variant (lines 1-1055) and the "stabiles     *)
(* Restore" variant (lines 1057-1846).  Helpers that are textually the    *)
(* same in both (assignLanes, segToPixels, useGanttScale, getSnapOptions, *)
(* snapPx, onMove, ...) are modelled once; helpers that differ carry the  *)
(* suffix V1 / V2 and a dispatcher under the source's name selects by the *)
(* state variable `variant`.                                              *)
(*                                                                         *)
(* Numbers.  JavaScript instants are modelled as whole minutes (one tick) *)
(* on a calendar without daylight-saving shifts.  A value in view-units   *)
(* (hours in hour view, days in week and month view) is kept in fixed     *)
(* point as a number of ticks: 1 hour = 60 ticks, 1 day = 1440 ticks, so  *)
(* 5/60 h = 5, 0.05 h = 3, 0.5/24 d = 30, 1/24 d = 60.  Pixels are        *)
(* integers; pxPerUnit is kept as the fraction pxNum / pxDen.              *)
(*                                                                         *)
(* Specifications.  Spec is the mounted component with its pointer,       *)
(* scroll, resize and select handlers.  SpecLanes, SpecProject and        *)
(* SpecPick drive assignLanes, projectTaskToView and pickBarAt over       *)
(* bounded inputs.                                                        *)
(***************************************************************************)
EXTENDS Integers, Sequences, FiniteSets, TLC

VARIABLES
    variant,        \* 1: geometry-index component, 2: "stabiles Restore" component
    view,           \* useState(initialView): "hour" | "week" | "month"
    preset,         \* useState(initialPreset ?? default)
    anchorMonth,    \* useState(initialMonth): month number of the modelled year
    hourViewDate,   \* useState(today 00:00): day index (variant 1 only)
    maxLanes,       \* useState(10): the "Max lanes" select, 1..20
    items,          \* assignLanes harness: the row's input list [{task, seg}]
    laneOut,        \* assignLanes harness: the returned { items, laneCount }
    task,           \* projection harness: the task { start, end } being projected
    projOut,        \* projection harness: <<>> for null, <<seg>> for a segment
    geomMap,        \* geomMapRef.current: captured [taskId, rect] in capture order
    pointer,        \* clientX / clientY of the last pointer event on the surface
    hoveredId,      \* useState(null): <<>> for null, <<taskId>> for a hit
    onTasksChange,  \* the prop: "function" when the owner passes a callback
    internalTasks,  \* useState([]) after the mount effect: the normalized tasks
    clientWidth,    \* chartScrollRef.current.clientWidth
    scrollLeft,     \* chartScrollRef.current.scrollLeft
    snapUnits,      \* useState(first snap option), in ticks
    bars,           \* the bar elements: per task id, mounted, style and last props
    dragRef,        \* dragRef.current: <<>> for null, <<drag state>> while dragging
    tipRef,         \* tipRef.current: TRUE while it refers to a tooltip element
    tipCount,       \* tooltip elements that are children of document.body
    calls,          \* invocations of onTasksChange so far
    lastCall,       \* <<>> or <<[task, change]>>: arguments of the last invocation
    drags,          \* pointer-downs that began a drag so far
    changes,        \* select and resize events so far
    scaleOut,       \* scale harness: the object returned by useGanttScale
    layoutMemo,     \* the value useMemo holds for rowLayout: per resource row
    scrollTop,      \* chartScrollRef.current.scrollTop
    timelineX,      \* x of the ruler's transform translateX(-x px)
    tableScrollTop, \* tableLeftRef.current.scrollTop
    scrollbarPx,    \* height the platform gives a horizontal scrollbar
    rulerBands,     \* weekend bands drawn into the timeline ruler: [left, width]
    rulerLines,     \* left of the ruler's unit gridlines, one per boundary 0..totalUnits
    weekendBands,   \* useMemo(computeWeekendBandsPx): bands of the bar pane
    snapStart,      \* snap harness: start of the bar's segment, ticks into the window
    snapDx,         \* snap harness: <<>> or <<dx>>, e.clientX - ds.startX of the move
    snapOut,        \* snap harness: the bar's style.left
    snapOut2,       \* snap harness: snapPx applied to snapOut
    hookScale,      \* hook harness: the scale argument of useBarDrag, <<>> if absent
    threw           \* hook harness: the last handler ended by throwing a TypeError

cfgVars   == <<variant, view, preset, anchorMonth, hourViewDate, maxLanes>>
lanesVars == <<items, laneOut>>
projVars  == <<task, projOut>>
pickVars  == <<geomMap, pointer, hoveredId>>
uiVars    == <<onTasksChange, internalTasks, clientWidth, scrollLeft, snapUnits,
               bars, dragRef, tipRef, tipCount, calls, lastCall, drags, changes>>
scrollVars == <<scrollTop, timelineX, tableScrollTop, scrollbarPx>>
bandVars  == <<rulerBands, weekendBands, rulerLines>>
snapVars  == <<snapStart, snapDx, snapOut, snapOut2>>
hookVars  == <<hookScale, threw>>
fnVars    == <<scaleOut, layoutMemo, scrollVars, bandVars, snapVars, hookVars>>
vars == <<cfgVars, lanesVars, projVars, pickVars, uiVars, fnVars>>

(***************************************************************************)
(* Bounds of the model                                                     *)
(***************************************************************************)
MaxSegs == 3        \* segments in one row of the assignLanes harness
MaxUnit == 3        \* segment coordinates of the harness range over 0..MaxUnit
MaxAnchorMonth == 3 \* the month picker ranges over February..MaxAnchorMonth
Today == 31         \* day index of `new Date()`: 1 February of the modelled year
HScrollbarPx == 15  \* height of a horizontal scrollbar where scrollbars take space
RowsOverflowPx == 40 \* height of the rows beyond the height of the body
MaxSnapDx == 32     \* pointer deltas of the snap harness range over -MaxSnapDx..MaxSnapDx
MaxSnapSteps == 64  \* snap steps a displacement of the snap harness is compared with
MaxSelections == 3      \* selections made in one behaviour of the snap-selection harness
MaxBars == 3        \* captured rectangles in the hit-test harness
MaxTop == 2         \* rectangle tops of the hit-test harness range over 0..MaxTop
HarnessBarH == 2    \* rectangle height in the hit-test harness
MaxDrags == 2       \* drags begun in one behaviour of the component
MaxChanges == 1     \* select and resize events in one behaviour
MaxSnapChoice == 2  \* the Snap select is exercised with its first MaxSnapChoice options

(***************************************************************************)
(* Program constants                                                       *)
(***************************************************************************)
DefaultMaxLanes == 10   \* useState(10)
MaxLanesOption == 20    \* Array.from({length:20}, (_,i)=>i+1): the select's options
HourTicks == 60         \* HOUR_MS, one hour in ticks of a minute
DayTicks == 1440        \* DAY_MS = 24 * HOUR_MS, one day in ticks
FirstWeekday == 4       \* getDay() of 1 January 2026, day index 0 (a Thursday)
MinHourTicksV1 == 5     \* 5/60 hour
MinHourTicksV2 == 3     \* 0.05 hour
MinDayTicks == 30       \* 0.5/24 day = 1/48 day
MinWeekTicksV2 == 60    \* 1/24 day
BASE_ROW_PX == 40       \* const BASE_ROW_PX = 40
DefaultLaneOffset == 5  \* useState(5)
DefaultWidth == 1200    \* clientWidth || 1200
MinBarPx == 4           \* Math.max(4, ...) of segToPixels and onMove
WeekRulerFallback == 800 \* root.clientWidth || 800 of the first renderWeekTimeline
EdgePx == 8             \* const edge = 8
EpsNano == 1            \* the 1e-9 of findIndex, in 1e-9 view-units
NanoPerTick == 694444   \* 1e-9 view-units per tick: at least 1e9/1440 (a day unit)

Max2(a, b) == IF a >= b THEN a ELSE b
Min2(a, b) == IF a <= b THEN a ELSE b

(***************************************************************************)
(* assignLanes (interval partitioning)                                     *)
(***************************************************************************)
\* the comparator of items.slice().sort(...): negative, zero or positive
SortCmp(a, b) ==
    IF a.seg.startUnit - b.seg.startUnit # 0
    THEN a.seg.startUnit - b.seg.startUnit
    ELSE a.seg.endUnit - b.seg.endUnit

\* Array.prototype.sort is stable: x goes after every element not greater than it
RECURSIVE InsertSorted(_, _)
InsertSorted(s, x) ==
    IF s = <<>> THEN <<x>>
    ELSE IF SortCmp(Head(s), x) <= 0
         THEN <<Head(s)>> \o InsertSorted(Tail(s), x)
         ELSE <<x>> \o s

RECURSIVE SortItems(_)
SortItems(s) ==
    IF s = <<>> THEN <<>>
    ELSE InsertSorted(SortItems(SubSeq(s, 1, Len(s) - 1)), s[Len(s)])

\* a lane counted as free although the segment still overlaps it by one tick
LaneIsFreeLoose(end, startUnit) == end - startUnit <= 1

\* end <= startUnit + 1e-9 on tick-aligned values: the tolerance is
\* EpsNano / NanoPerTick of a tick
LaneIsFree(end, startUnit) == end - startUnit <= EpsNano \div NanoPerTick

\* laneEnds.findIndex(end => end <= it.seg.startUnit + 1e-9); lanes count from 0
FindIndex(laneEnds, startUnit) ==
    IF \E i \in 1..Len(laneEnds) : LaneIsFree(laneEnds[i], startUnit)
    THEN (CHOOSE i \in 1..Len(laneEnds) :
            /\ LaneIsFree(laneEnds[i], startUnit)
            /\ \A j \in 1..(i - 1) : ~LaneIsFree(laneEnds[j], startUnit)) - 1
    ELSE -1

\* the cap test dropped: every segment without a free lane opens one
OpensLaneNoCap(laneEnds, maxL) == TRUE

\* whether a segment that found no free lane opens a new one
OpensLane(laneEnds, maxL) == Len(laneEnds) < maxL

\* forced placement into the first lane instead of the last
CapLaneFirst(maxL) == 0

\* the lane a segment is forced into once the cap is reached
CapLane(maxL) == maxL - 1

\* the index taken after the push instead of before it
NewLaneAfterPush(laneEnds) == Len(laneEnds) + 1

\* lane = laneEnds.length, taken before laneEnds.push(...)
NewLane(laneEnds) == Len(laneEnds)

\* laneEnds[lane] = v (an assignment past the end of a JS array extends it)
SetLaneEnd(laneEnds, lane, v) ==
    IF lane + 1 \in 1..Len(laneEnds)
    THEN [laneEnds EXCEPT ![lane + 1] = v]
    ELSE laneEnds \o [i \in 1..(lane + 1 - Len(laneEnds)) |-> v]

\* one iteration of `for (const it of sorted)`
LaneStep(st, it, maxL) ==
    LET found == FindIndex(st.laneEnds, it.seg.startUnit) IN
    IF found = -1
    THEN IF OpensLane(st.laneEnds, maxL)
         THEN [laneEnds |-> Append(st.laneEnds, it.seg.endUnit),
               out |-> Append(st.out, [task |-> it.task, seg |-> it.seg,
                                       lane |-> NewLane(st.laneEnds)])]
         ELSE LET lane == CapLane(maxL) IN
              [laneEnds |-> SetLaneEnd(st.laneEnds, lane,
                               Max2(IF lane + 1 \in 1..Len(st.laneEnds)
                                    THEN st.laneEnds[lane + 1]
                                    ELSE it.seg.endUnit, it.seg.endUnit)),
               out |-> Append(st.out, [task |-> it.task, seg |-> it.seg,
                                       lane |-> lane])]
    ELSE [laneEnds |-> SetLaneEnd(st.laneEnds, found, it.seg.endUnit),
          out |-> Append(st.out, [task |-> it.task, seg |-> it.seg,
                                  lane |-> found])]

RECURSIVE LaneLoop(_, _, _)
LaneLoop(st, sorted, maxL) ==
    IF sorted = <<>> THEN st
    ELSE LaneLoop(LaneStep(st, Head(sorted), maxL), Tail(sorted), maxL)

assignLanes(its, maxL) ==
    LET fin == LaneLoop([laneEnds |-> <<>>, out |-> <<>>], SortItems(its), maxL) IN
    [items |-> fin.out, laneCount |-> Max2(1, Len(fin.laneEnds))]

(***************************************************************************)
(* Calendar: Date getters on minute ticks, year 2026, no daylight saving   *)
(***************************************************************************)
MonthLen == <<31, 28, 31, 30, 31, 30, 31, 31, 30, 31, 30, 31>>

\* day index of new Date(y, m - 1, 1); m = 13 is 1 January of the next year
RECURSIVE MonthStartDay(_)
MonthStartDay(m) == IF m <= 1 THEN 0 ELSE MonthStartDay(m - 1) + MonthLen[m - 1]

DayOf(inst) == inst \div DayTicks
MonthOfDay(d) ==
    CHOOSE m \in 1..12 : MonthStartDay(m) <= d /\ d < MonthStartDay(m + 1)

\* x.setHours(0,0,0,0)
startOfDay(inst) == DayOf(inst) * DayTicks
\* d.getHours() + d.getMinutes()/60, in ticks
HoursOfDay(inst) == inst % DayTicks
\* d.getDate()
getDate(inst) == DayOf(inst) - MonthStartDay(MonthOfDay(DayOf(inst))) + 1
\* d.getDay(): 0 Sunday .. 6 Saturday
getDay(inst) == (FirstWeekday + DayOf(inst)) % 7
\* d.getMonth() + 1
getMonth(inst) == MonthOfDay(DayOf(inst))

daysInMonth(date) == MonthLen[getMonth(date)]
clamp(n, a, b) == Max2(a, Min2(b, n))

\* anchorDate = new Date(y, (m||1)-1, 1) from anchorMonth
AnchorDateOf(m) == MonthStartDay(m) * DayTicks

(***************************************************************************)
(* View, presets                                                           *)
(***************************************************************************)
Views == {"hour", "week", "month"}

PresetsOf(v) ==
    IF v = "hour" THEN {"4 Hours", "6 Hours", "12 Hours", "18 Hours", "24 Hours"}
    ELSE IF v = "week" THEN {"Work Week", "Full Week"}
    ELSE {"7 Days", "14 Days", "Full Month"}

defaultPresetFor(v) ==
    IF v = "hour" THEN "24 Hours"
    ELSE IF v = "week" THEN "Full Week"
    ELSE "Full Month"

\* /Work/i.test(preset)
IsWork(p) == p = "Work Week"

\* initialView = 'hour' in the first component, 'month' in the second
InitialView(vr) == IF vr = 1 THEN "hour" ELSE "month"

\* totalUnits of useGanttScale
TotalUnits(v, p, anchorDate) ==
    IF v = "hour" THEN 24
    ELSE IF v = "week" THEN (IF IsWork(p) THEN 5 ELSE 7)
    ELSE daysInMonth(anchorDate)

\* ticks in one view-unit: hours in hour view, days otherwise
UnitTicks(v) == IF v = "hour" THEN HourTicks ELSE DayTicks

(***************************************************************************)
(* projectTaskToView                                                       *)
(***************************************************************************)
\* the window test by containment of the task instead of intersection
ClipProjectContain(start, end, ws, we, minW) ==
    IF start < ws \/ end > we \/ end <= start THEN <<>>
    ELSE <<[startUnit |-> start - ws,
            endUnit |-> Max2((start - ws) + minW, end - ws)]>>

\* first component, the body shared by the three views: intersect the task
\* with the window [ws, we], null when e <= s, floor the width at minW
ClipProject(start, end, ws, we, minW) ==
    LET s == Max2(start, ws)
        e == Min2(end, we)
    IN  IF e <= s THEN <<>>
        ELSE <<[startUnit |-> s - ws,
                endUnit |-> Max2((s - ws) + minW, e - ws)]>>

\* week start of the first component: Monday 00:00 (Work Week) or Sunday 00:00
WeekStartV1(anchorDate, p) ==
    LET ws == startOfDay(anchorDate) IN
    IF IsWork(p)
    THEN ws - ((getDay(ws) + 6) % 7) * DayTicks
    ELSE ws - getDay(ws) * DayTicks

projectTaskToViewV1(t, v, p, anchorDate) ==
    IF v = "hour" THEN
        LET dayStart == startOfDay(anchorDate)
            dayEnd == dayStart + 24 * HourTicks
        IN  ClipProject(t.start, t.end, dayStart, dayEnd, MinHourTicksV1)
    ELSE IF v = "week" THEN
        LET ws == WeekStartV1(anchorDate, p)
            dayCount == IF IsWork(p) THEN 5 ELSE 7
            we == ws + dayCount * DayTicks
        IN  ClipProject(t.start, t.end, ws, we, MinDayTicks)
    ELSE IF v = "month" THEN
        LET ms == MonthStartDay(getMonth(anchorDate)) * DayTicks
            me == MonthStartDay(getMonth(anchorDate) + 1) * DayTicks
        IN  ClipProject(t.start, t.end, ms, me, MinDayTicks)
    ELSE <<>>

\* second component: clock fields of the task, no window intersection
projectTaskToViewV2(t, v, p, anchorDate) ==
    IF v = "hour" THEN
        LET startH == HoursOfDay(t.start)
            endH == HoursOfDay(t.end)
        IN  <<[startUnit |-> startH, endUnit |-> Max2(startH + MinHourTicksV2, endH)]>>
    ELSE IF v = "week" THEN
        LET work == IsWork(p)
            monIdx == (getDay(t.start) + 6) % 7
            dayIdx == IF work THEN monIdx ELSE getDay(t.start)
            dayCount == IF work THEN 5 ELSE 7
        IN  IF dayIdx < 0 \/ dayIdx >= dayCount THEN <<>>
            ELSE <<[startUnit |-> dayIdx * DayTicks + HoursOfDay(t.start),
                    endUnit |-> Min2(dayCount * DayTicks,
                                     dayIdx * DayTicks
                                       + Max2(MinWeekTicksV2, t.end - t.start))]>>
    ELSE IF v = "month" THEN
        LET dim == daysInMonth(anchorDate)
            sDay == clamp(getDate(t.start), 1, dim) - 1
            eDay == clamp(getDate(t.end), 1, dim) - 1
            startUnit == sDay * DayTicks + HoursOfDay(t.start)
        IN  <<[startUnit |-> startUnit,
               endUnit |-> Max2(startUnit + MinDayTicks,
                                eDay * DayTicks + HoursOfDay(t.end))]>>
    ELSE <<>>

projectTaskToView(t, v, p, anchorDate) ==
    IF variant = 1 THEN projectTaskToViewV1(t, v, p, anchorDate)
    ELSE projectTaskToViewV2(t, v, p, anchorDate)

\* the anchor rowLayout hands to projectTaskToView: the first component passes
\* hourViewDate in hour view, the second always anchorDate
LayoutAnchor(vr, v, am, hvd) ==
    IF vr = 1 /\ v = "hour" THEN hvd * DayTicks ELSE AnchorDateOf(am)

(***************************************************************************)
(* pickBarAt (global hit-testing over the geometry map)                    *)
(***************************************************************************)
RectRight(r) == r.left + r.width
RectBottom(r) == r.top + r.height

\* clientX >= rect.left && clientX <= rect.right && clientY >= rect.top && ...
RectContains(r, x, y) ==
    /\ x >= r.left /\ x <= RectRight(r)
    /\ y >= r.top /\ y <= RectBottom(r)

\* dy = Math.abs(clientY - (rect.top + rect.height/2)), doubled to stay integral
CenterDy2(r, y) ==
    LET d == 2 * y - (2 * r.top + r.height) IN IF d < 0 THEN -d ELSE d

\* the tie taken by the later rectangle
CloserOrEqual(dy2, st) == st.best = <<>> \/ dy2 <= st.bestDy2

\* dy < bestDy, with bestDy = Infinity while nothing is chosen
Closer(dy2, st) == st.best = <<>> \/ dy2 < st.bestDy2

\* the forEach of pickBarAt over geomMapRef.current, in insertion order
RECURSIVE PickLoop(_, _, _, _)
PickLoop(entries, x, y, st) ==
    IF entries = <<>> THEN st
    ELSE LET g == Head(entries)
             dy2 == CenterDy2(g.rect, y)
         IN  PickLoop(Tail(entries), x, y,
                IF RectContains(g.rect, x, y) /\ Closer(dy2, st)
                THEN [best |-> <<g>>, bestDy2 |-> dy2]
                ELSE st)

\* returns <<>> for null, else <<[taskId, rect]>>
pickBarAt(gm, x, y) == PickLoop(gm, x, y, [best |-> <<>>, bestDy2 |-> 0]).best

(***************************************************************************)
(* The assignLanes harness: a row is built one segment at a time and the  *)
(* row's layout is recomputed after every change, as rowLayout does.      *)
(***************************************************************************)
HarnessSegs ==
    { [startUnit |-> s, endUnit |-> e] : s \in 0..MaxUnit, e \in 0..MaxUnit }

\* the state of the pieces a harness does not exercise
NoTask == [start |-> 0, end |-> 0]
ProjParked == task = NoTask /\ projOut = <<>>
NoPointer == [x |-> 0, y |-> 0]
PickParked == geomMap = <<>> /\ pointer = NoPointer /\ hoveredId = <<>>
LanesParked == items = <<>> /\ laneOut = assignLanes(<<>>, DefaultMaxLanes)
UiParked ==
    /\ onTasksChange = "undefined" /\ internalTasks = <<>>
    /\ clientWidth = DefaultWidth /\ scrollLeft = 0 /\ snapUnits = 0
    /\ bars = <<>> /\ dragRef = <<>> /\ tipRef = FALSE /\ tipCount = 0
    /\ calls = 0 /\ lastCall = <<>> /\ drags = 0 /\ changes = 0

NoScale == [totalUnits |-> 24, visibleUnits |-> 24, pxNum |-> DefaultWidth,
            pxDen |-> 24, unitTicks |-> HourTicks]
ScrollParked ==
    scrollTop = 0 /\ timelineX = 0 /\ tableScrollTop = 0 /\ scrollbarPx = 0
BandsParked == rulerBands = <<>> /\ weekendBands = <<>> /\ rulerLines = <<>>
HookParked == hookScale = <<>> /\ threw = FALSE
SnapParked == snapStart = 0 /\ snapDx = <<>> /\ snapOut = 0 /\ snapOut2 = 0
FnParked ==
    /\ scaleOut = NoScale /\ layoutMemo = <<>> /\ ScrollParked /\ BandsParked
    /\ SnapParked
    /\ HookParked

\* the component's state after construction (useState initialisers)
CfgInit(vr) ==
    /\ variant = vr
    /\ view = InitialView(vr)
    /\ preset = defaultPresetFor(InitialView(vr))
    /\ anchorMonth = getMonth(Today * DayTicks)
    /\ hourViewDate = Today
    /\ maxLanes = DefaultMaxLanes

LanesInit ==
    /\ CfgInit(1)
    /\ items = <<>>
    /\ laneOut = assignLanes(<<>>, maxLanes)
    /\ ProjParked
    /\ PickParked
    /\ UiParked
    /\ FnParked

\* a task with a further projected segment joins the row
RowAddSegment ==
    /\ Len(items) < MaxSegs
    /\ \E sg \in HarnessSegs :
          /\ sg.endUnit > sg.startUnit
          /\ items' = Append(items, [task |-> Len(items) + 1, seg |-> sg])
    /\ laneOut' = assignLanes(items', maxLanes)
    /\ UNCHANGED <<variant, view, preset, anchorMonth, hourViewDate, maxLanes, projVars, fnVars, pickVars, uiVars>>

\* the "Max lanes" select: setMaxLanes(parseInt(e.target.value, 10))
RowSetMaxLanes ==
    /\ \E n \in 1..MaxLanesOption :
          /\ n # maxLanes
          /\ maxLanes' = n
    /\ laneOut' = assignLanes(items, maxLanes')
    /\ UNCHANGED <<variant, view, preset, anchorMonth, hourViewDate, items, projVars, fnVars, pickVars, uiVars>>

LanesNext == RowAddSegment \/ RowSetMaxLanes

SpecLanes == LanesInit /\ [][LanesNext]_vars

(***************************************************************************)
(* The projection harness: one task, projected onto the current window    *)
(* again after every change of the task, view, preset or anchor.          *)
(***************************************************************************)
AnchorMonths == 2..MaxAnchorMonth
ViewDates == {Today, MonthStartDay(3) - 1}

TaskStartDays == {Today - 1, Today, Today + 6, MonthStartDay(3) - 1}
TaskStartMinutes == {0, 30, 720, 1425, 1438}
TaskDurations == {2, 15, 20, 120, 2880}
Tasks ==
    { [start |-> d * DayTicks + m, end |-> d * DayTicks + m + dur] :
        d \in TaskStartDays, m \in TaskStartMinutes, dur \in TaskDurations }

Reproject ==
    projOut' = projectTaskToView(task', view', preset',
                                 LayoutAnchor(variant', view', anchorMonth', hourViewDate'))

ProjInit ==
    /\ \E vr \in {1, 2} : CfgInit(vr)
    /\ task \in Tasks
    /\ projOut = projectTaskToView(task, view, preset,
                                   LayoutAnchor(variant, view, anchorMonth, hourViewDate))
    /\ LanesParked
    /\ PickParked
    /\ UiParked
    /\ FnParked

\* the tasks prop changes
ProjSetTask ==
    /\ \E t \in Tasks : t # task /\ task' = t
    /\ UNCHANGED <<cfgVars, lanesVars, fnVars, pickVars, uiVars>>
    /\ Reproject

\* the View select: setView(v); setPreset(defaultPresetFor(v))
ProjSetView ==
    /\ \E v \in Views : v # view /\ view' = v /\ preset' = defaultPresetFor(v)
    /\ UNCHANGED <<variant, anchorMonth, hourViewDate, maxLanes, task, lanesVars, fnVars, pickVars, uiVars>>
    /\ Reproject

\* the Preset select of the active view
ProjSetPreset ==
    /\ \E p \in PresetsOf(view) : p # preset /\ preset' = p
    /\ UNCHANGED <<variant, view, anchorMonth, hourViewDate, maxLanes, task, lanesVars, fnVars, pickVars, uiVars>>
    /\ Reproject

\* the Month picker: setAnchorMonth(e.target.value)
ProjSetAnchorMonth ==
    /\ \E m \in AnchorMonths : m # anchorMonth /\ anchorMonth' = m
    /\ UNCHANGED <<variant, view, preset, hourViewDate, maxLanes, task, lanesVars, fnVars, pickVars, uiVars>>
    /\ Reproject

\* the View Date input, rendered by the first component in hour view only
ProjSetViewDate ==
    /\ variant = 1 /\ view = "hour"
    /\ \E d \in ViewDates : d # hourViewDate /\ hourViewDate' = d
    /\ UNCHANGED <<variant, view, preset, anchorMonth, maxLanes, task, lanesVars, fnVars, pickVars, uiVars>>
    /\ Reproject

ProjNext ==
    ProjSetTask \/ ProjSetView \/ ProjSetPreset \/ ProjSetAnchorMonth \/ ProjSetViewDate

SpecProject == ProjInit /\ [][ProjNext]_vars

(***************************************************************************)
(* The hit-test harness: rebuildGeom captures one more bar rectangle, or   *)
(* the pointer moves over the surface and onSurfaceMove picks a bar.      *)
(***************************************************************************)
HarnessRects ==
    { [left |-> l, top |-> t, width |-> 2, height |-> HarnessBarH] :
        l \in 0..1, t \in 0..MaxTop }
\* inside the left rectangle column only, inside both, inside the right only
PointerXs == {0, 2, 3}
PointerYs == 0..(MaxTop + HarnessBarH)

PickInit ==
    /\ CfgInit(1)
    /\ geomMap = <<>>
    /\ pointer = NoPointer
    /\ hoveredId = <<>>
    /\ LanesParked
    /\ ProjParked
    /\ UiParked
    /\ FnParked

\* rebuildGeom with one more rendered bar: map.set(id, { el, rect })
PickCapture ==
    /\ Len(geomMap) < MaxBars
    /\ \E r \in HarnessRects :
          geomMap' = Append(geomMap, [taskId |-> Len(geomMap) + 1, rect |-> r])
    /\ UNCHANGED <<cfgVars, lanesVars, fnVars, projVars, pointer, hoveredId, uiVars>>

\* onSurfaceMove: setHoveredId(hit?.taskId || null)
PickSurfaceMove ==
    /\ \E x \in PointerXs, y \in PointerYs :
          LET hit == pickBarAt(geomMap, x, y) IN
          /\ pointer' = [x |-> x, y |-> y]
          /\ hoveredId' = IF hit = <<>> THEN <<>> ELSE <<hit[1].taskId>>
    /\ UNCHANGED <<cfgVars, lanesVars, fnVars, projVars, geomMap, uiVars>>

PickNext == PickCapture \/ PickSurfaceMove

SpecPick == PickInit /\ [][PickNext]_vars

(***************************************************************************)
(* Scale, pixels, snap options                                             *)
(***************************************************************************)
\* Math.round(n / d) for d > 0: floor(n/d + 1/2)
MathRound(n, d) == (2 * n + d) \div (2 * d)

\* parseInt(String(preset).match(/([0-9]+)/)[1], 10)
PresetHours(p) ==
    CASE p = "4 Hours" -> 4 [] p = "6 Hours" -> 6 [] p = "12 Hours" -> 12
      [] p = "18 Hours" -> 18 [] p = "14 Days" -> 14 [] p = "7 Days" -> 7
      [] OTHER -> 24

VisibleUnits(v, p, anchorDate) ==
    IF v = "hour" THEN clamp(PresetHours(p), 1, 24)
    ELSE IF v = "week" THEN TotalUnits(v, p, anchorDate)
    ELSE IF p = "14 Days" THEN 14
    ELSE IF p = "7 Days" THEN 7
    ELSE TotalUnits(v, p, anchorDate)

\* useGanttScale reading clientWidth without the `|| 1200` fallback
useGanttScaleNoFallback(v, p, anchorDate, cw) ==
    [totalUnits |-> TotalUnits(v, p, anchorDate),
     visibleUnits |-> VisibleUnits(v, p, anchorDate),
     pxNum |-> cw,
     pxDen |-> Max2(1, VisibleUnits(v, p, anchorDate)),
     unitTicks |-> UnitTicks(v)]

\* the scale: pxPerUnit is the fraction pxNum / pxDen pixels per view-unit,
\* unitTicks the ticks of one view-unit
useGanttScale(v, p, anchorDate, cw) ==
    LET csW == IF cw = 0 THEN DefaultWidth ELSE cw IN
    [totalUnits |-> TotalUnits(v, p, anchorDate),
     visibleUnits |-> VisibleUnits(v, p, anchorDate),
     pxNum |-> csW,
     pxDen |-> Max2(1, VisibleUnits(v, p, anchorDate)),
     unitTicks |-> UnitTicks(v)]

\* Math.round(scale.contentPx), contentPx = pxPerUnit * totalUnits
ContentPx(sc) == MathRound(sc.pxNum * sc.totalUnits, sc.pxDen)

\* Math.round(units * scale.pxPerUnit) for a value in ticks
UnitsToPx(ticks, sc) == MathRound(ticks * sc.pxNum, sc.unitTicks * sc.pxDen)

segToPixels(seg, sc) ==
    [leftPx |-> UnitsToPx(seg.startUnit, sc),
     widthPx |-> Max2(MinBarPx, UnitsToPx(seg.endUnit - seg.startUnit, sc))]

\* the units of the options, in ticks
getSnapOptions(v, p) ==
    IF v = "hour" THEN <<1, 5, 10, 15>>
    ELSE IF v = "week" THEN <<15, 30, 60, 120, 240>>
    ELSE IF p = "Full Month" THEN <<360, 720, 1440, 2880>>
    ELSE <<60, 180, 360, 720, 1440>>

\* snapPx with Math.ceil in the conversion back to px
snapPxCeil(px, sc, snap) ==
    IF snap = 0 THEN px
    ELSE LET n == MathRound(px * sc.pxDen * sc.unitTicks, sc.pxNum * snap)
         IN  -((-(n * snap * sc.pxNum)) \div (sc.unitTicks * sc.pxDen))

\* px -> view units -> nearest multiple of snapUnits -> px
snapPx(px, sc, snap) ==
    IF snap = 0 THEN px
    ELSE LET n == MathRound(px * sc.pxDen * sc.unitTicks, sc.pxNum * snap)
         IN  MathRound(n * snap * sc.pxNum, sc.unitTicks * sc.pxDen)

(***************************************************************************)
(* Tasks shown, row layout, rendering of the bars                          *)
(***************************************************************************)
\* resource ids in the order of their first task
RECURSIVE FirstSeen(_)
FirstSeen(ts) ==
    IF ts = <<>> THEN <<>>
    ELSE LET rest == FirstSeen(SubSeq(ts, 1, Len(ts) - 1))
             r == ts[Len(ts)].resourceId
         IN  IF \E i \in 1..Len(rest) : rest[i] = r THEN rest ELSE Append(rest, r)

\* keep = Math.max(1, Math.floor(arr.length * ratio)) with ratio 0.99
DownsampleKeep(n) == Max2(1, (n * 99) \div 100)

RECURSIVE DownsampleGroups(_, _)
DownsampleGroups(ts, rs) ==
    IF rs = <<>> THEN <<>>
    ELSE LET arr == SelectSeq(ts, LAMBDA t : t.resourceId = Head(rs))
         IN  SubSeq(arr, 1, Min2(Len(arr), DownsampleKeep(Len(arr))))
               \o DownsampleGroups(ts, Tail(rs))

\* downsampleByResource(tasks, 0.99): the filter i % Math.round(1/0.99) === 0
\* passes every index, slice(0, keep) cuts each resource's list
downsampleByResource(ts) == DownsampleGroups(ts, FirstSeen(ts))

\* const tasks = ...: the first component downsamples in hour view
TasksInView(ts, v) ==
    IF variant = 1 /\ v = "hour" THEN downsampleByResource(ts) ELSE ts

\* the inner loop without `if (t.resourceId !== r.id) continue`
RECURSIVE RowSegsAnyResource(_, _, _, _, _)
RowSegsAnyResource(r, ts, v, p, anchor) ==
    IF ts = <<>> THEN <<>>
    ELSE LET t == Head(ts)
             seg == projectTaskToView(t, v, p, anchor)
             rest == RowSegsAnyResource(r, Tail(ts), v, p, anchor)
         IN  IF seg = <<>> THEN rest
             ELSE <<[task |-> t, seg |-> seg[1]]>> \o rest

\* the inner loop of rowLayout: the projected tasks of resource r
RECURSIVE RowSegs(_, _, _, _, _)
RowSegs(r, ts, v, p, anchor) ==
    IF ts = <<>> THEN <<>>
    ELSE LET t == Head(ts)
             seg == projectTaskToView(t, v, p, anchor)
             rest == RowSegs(r, Tail(ts), v, p, anchor)
         IN  IF t.resourceId # r \/ seg = <<>> THEN rest
             ELSE <<[task |-> t, seg |-> seg[1]]>> \o rest

rowLayout(res, ts, v, p, anchor, maxL, laneOff) ==
    [r \in 1..Len(res) |->
        LET al == assignLanes(RowSegs(res[r], ts, v, p, anchor), maxL) IN
        [items |-> al.items, laneCount |-> al.laneCount,
         rowHeight |-> BASE_ROW_PX + Max2(0, al.laneCount - 1) * laneOff]]

\* offset of row r in the chart content: the heights of the rows above it
RECURSIVE RowTop(_, _)
RowTop(layout, r) ==
    IF r <= 1 THEN 0 ELSE RowTop(layout, r - 1) + layout[r - 1].rowHeight

\* the bars of one row as rendered: style props left, width, top
RowBars(layout, r, sc, laneOff) ==
    [k \in 1..Len(layout[r].items) |->
        LET it == layout[r].items[k]
            px == segToPixels(it.seg, sc)
        IN  [id |-> it.task.id, left |-> px.leftPx, width |-> px.widthPx,
             top |-> RowTop(layout, r) + 6 + it.lane * laneOff]]

\* the rendered bars in document order
RECURSIVE RenderedBars(_, _, _, _)
RenderedBars(layout, r, sc, laneOff) ==
    IF r > Len(layout) THEN <<>>
    ELSE RowBars(layout, r, sc, laneOff) \o RenderedBars(layout, r + 1, sc, laneOff)

BarHeight == BASE_ROW_PX - 12

NoBar == [mounted |-> FALSE, left |-> 0, width |-> 0, pLeft |-> 0, pWidth |-> 0]

\* React's commit: a new bar gets its props as style, a kept bar only the
\* style properties whose prop value changed, a dropped bar is removed
Commit(bs, placed) ==
    [id \in DOMAIN bs |->
        IF \E k \in 1..Len(placed) : placed[k].id = id
        THEN LET pr == placed[CHOOSE k \in 1..Len(placed) : placed[k].id = id]
                 b == bs[id]
             IN  IF b.mounted
                 THEN [mounted |-> TRUE,
                       left |-> IF pr.left # b.pLeft THEN pr.left ELSE b.left,
                       width |-> IF pr.width # b.pWidth THEN pr.width ELSE b.width,
                       pLeft |-> pr.left, pWidth |-> pr.width]
                 ELSE [mounted |-> TRUE, left |-> pr.left, width |-> pr.width,
                       pLeft |-> pr.left, pWidth |-> pr.width]
        ELSE NoBar]

\* rebuildGeom: el.getBoundingClientRect() of every bar, in document order
rebuildGeom(bs, placed, sl) ==
    [k \in 1..Len(placed) |->
        [taskId |-> placed[k].id,
         rect |-> [left |-> bs[placed[k].id].left - sl, top |-> placed[k].top,
                   width |-> bs[placed[k].id].width, height |-> BarHeight]]]

(***************************************************************************)
(* useBarDrag                                                              *)
(***************************************************************************)
\* ensureTip with the early return on an existing element dropped
ensureTipAlways(ref, count) == [ref |-> TRUE, count |-> count + 1]

\* ensureTip: reuse tipRef.current, else create an element under document.body
ensureTip(ref, count) ==
    IF ref THEN [ref |-> ref, count |-> count]
    ELSE [ref |-> TRUE, count |-> count + 1]

\* hideTip: remove the element tipRef.current refers to, then clear the ref
hideTip(ref, count) ==
    [ref |-> FALSE, count |-> IF ref THEN count - 1 ELSE count]

\* the mode with the right edge tested first and both tests inclusive
DragModeRightFirst(xIn, width) ==
    IF xIn >= width - EdgePx THEN "resize-r"
    ELSE IF xIn <= EdgePx THEN "resize-l"
    ELSE "move"

DragMode(xIn, width) ==
    IF xIn < EdgePx THEN "resize-l"
    ELSE IF xIn > width - EdgePx THEN "resize-r"
    ELSE "move"

\* the drag state written by beginFromElement / onBarMouseDown.  el is the
\* bar element of the task; once React has removed that element, `detached`
\* is TRUE and elLeft / elWidth hold the style of the removed node
beginFromElement(id, mode, clientX, bs) ==
    [mode |-> mode, task |-> id, startX |-> clientX,
     origLeft |-> bs[id].left, origWidth |-> bs[id].width,
     detached |-> FALSE, elLeft |-> 0, elWidth |-> 0]

ElStyle(ds, bs) ==
    IF ds.detached THEN [left |-> ds.elLeft, width |-> ds.elWidth]
    ELSE [left |-> bs[ds.task].left, width |-> bs[ds.task].width]

\* onMove with the resized width written as computed, without Math.max(4, ...)
onMoveStyleNoFloor(ds, cur, dx, sc, snap) ==
    IF ds.mode = "move"
    THEN [left |-> snapPx(ds.origLeft + dx, sc, snap), width |-> cur.width]
    ELSE IF ds.mode = "resize-l"
    THEN LET newLeft == snapPx(ds.origLeft + dx, sc, snap) IN
         [left |-> newLeft, width |-> ds.origWidth - (newLeft - ds.origLeft)]
    ELSE LET snappedEnd == snapPx(ds.origLeft + ds.origWidth + dx, sc, snap) IN
         [left |-> cur.left, width |-> snappedEnd - ds.origLeft]

\* the style onMove writes to ds.el for a pointer at startX + dx
onMoveStyle(ds, cur, dx, sc, snap) ==
    IF ds.mode = "move"
    THEN [left |-> snapPx(ds.origLeft + dx, sc, snap), width |-> cur.width]
    ELSE IF ds.mode = "resize-l"
    THEN LET newLeft == snapPx(ds.origLeft + dx, sc, snap) IN
         [left |-> newLeft,
          width |-> Max2(MinBarPx, ds.origWidth - (newLeft - ds.origLeft))]
    ELSE LET snappedEnd == snapPx(ds.origLeft + ds.origWidth + dx, sc, snap) IN
         [left |-> cur.left, width |-> Max2(MinBarPx, snappedEnd - ds.origLeft)]

\* the change record without the 0.1 floor of the duration
ChangeRecordNoFloor(ds, cur, sc, snap) ==
    [startUnit |-> [num |-> cur.left * sc.pxDen, den |-> sc.pxNum],
     durationU |-> [num |-> cur.width * sc.pxDen, den |-> sc.pxNum],
     mode |-> ds.mode, snapUnits |-> snap]

\* the change record of onUp; startUnit and durationU are fractions of a
\* view-unit, durationU = Math.max(0.1, widthPx / pxPerUnit)
ChangeRecord(ds, cur, sc, snap) ==
    [startUnit |-> [num |-> cur.left * sc.pxDen, den |-> sc.pxNum],
     durationU |-> IF 10 * cur.width * sc.pxDen < sc.pxNum
                   THEN [num |-> 1, den |-> 10]
                   ELSE [num |-> cur.width * sc.pxDen, den |-> sc.pxNum],
     mode |-> ds.mode, snapUnits |-> snap]

\* the updater of onUp with the dragged task shifted by one snap step
SetInternalTasksShifted(prev, id, snap) ==
    [i \in DOMAIN prev |->
        IF prev[i].id = id
        THEN [prev[i] EXCEPT !.start = @ + snap, !.end = @ + snap]
        ELSE prev[i]]

\* setInternalTasks(prev => prev.map(t => t.id===ds.task.id ? t : t))
SetInternalTasksOnUp(prev, id, snap) ==
    [i \in DOMAIN prev |-> IF prev[i].id = id THEN prev[i] ELSE prev[i]]

(***************************************************************************)
(* The component: its state after mounting and one action per handler      *)
(***************************************************************************)
UiResources == <<"r1", "r2">>

\* the tasks the owner passes: two overlapping tasks of r1 and one task of
\* r2 that runs over midnight, all on the current day
UiTasks ==
    <<[id |-> "t1", resourceId |-> "r1",
       start |-> Today * DayTicks + 9 * HourTicks,
       end |-> Today * DayTicks + 11 * HourTicks],
      [id |-> "t2", resourceId |-> "r1",
       start |-> Today * DayTicks + 10 * HourTicks,
       end |-> Today * DayTicks + 12 * HourTicks + 30],
      [id |-> "t3", resourceId |-> "r2",
       start |-> Today * DayTicks + 23 * HourTicks,
       end |-> (Today + 1) * DayTicks + HourTicks]>>

ViewportWidths == {900, 1200}
\* the presets and snap options the selects are exercised with
UiPresets(v) ==
    IF v = "hour" THEN {"4 Hours", "24 Hours"}
    ELSE IF v = "week" THEN {"Work Week", "Full Week"}
    ELSE {"7 Days", "Full Month"}
UiSnapChoices(v, p) == { getSnapOptions(v, p)[i] : i \in 1..MaxSnapChoice }
ScrollLefts == {0, 100}
DragDeltas == {-25, 37}
\* horizontal offsets inside a bar at which the pointer goes down
GrabOffsets(w) == {3, w \div 2, w - 3}

ScaleOf(v, p, am, cw) == useGanttScale(v, p, AnchorDateOf(am), cw)

\* what a render of the component places, in document order
PlacedOf(ts, v, p, am, hvd, maxL, cw) ==
    RenderedBars(rowLayout(UiResources, TasksInView(ts, v), v, p,
                           LayoutAnchor(variant, v, am, hvd), maxL,
                           DefaultLaneOffset),
                 1, ScaleOf(v, p, am, cw), DefaultLaneOffset)

CurScale == ScaleOf(view, preset, anchorMonth, clientWidth)
CurPlaced == PlacedOf(internalTasks, view, preset, anchorMonth, hourViewDate,
                      maxLanes, clientWidth)

\* cs.scrollLeft after the width effect: if (cs.scrollLeft > max) cs.scrollLeft = max
ClampScroll(sl, sc, cw) == Min2(sl, Max2(0, ContentPx(sc) - cw))

\* a drag whose element the render removes keeps the removed node
DetachOnUnmount(dr, bs, placed) ==
    IF dr = <<>> THEN dr
    ELSE LET ds == dr[1] IN
         IF ~ds.detached /\ ~(\E k \in 1..Len(placed) : placed[k].id = ds.task)
         THEN <<[ds EXCEPT !.detached = TRUE, !.elLeft = bs[ds.task].left,
                           !.elWidth = bs[ds.task].width]>>
         ELSE dr

\* a render with the given inputs, its commit, the layout effect
\* (rebuildGeom, first component, when `rebuild` says its dependencies
\* changed) and the width effect with the scroll event it causes
Rerender(ts, v, p, cw, rebuild) ==
    LET placed == PlacedOf(ts, v, p, anchorMonth, hourViewDate, maxLanes, cw)
        bs == Commit(bars, placed)
        sl == ClampScroll(scrollLeft, ScaleOf(v, p, anchorMonth, cw), cw)
    IN  /\ bars' = bs
        /\ scrollLeft' = sl
        /\ geomMap' = IF variant = 1 /\ (rebuild \/ sl # scrollLeft)
                      THEN rebuildGeom(bs, placed, sl)
                      ELSE geomMap

UiInit ==
    /\ \E vr \in {1, 2} : CfgInit(vr)
    /\ onTasksChange \in {"function", "undefined"}
    /\ internalTasks = UiTasks
    /\ clientWidth \in ViewportWidths
    /\ scrollLeft = 0
    /\ snapUnits = getSnapOptions(view, preset)[1]
    /\ bars = Commit([id \in {t.id : t \in {UiTasks[i] : i \in DOMAIN UiTasks}} |-> NoBar],
                     CurPlaced)
    /\ geomMap = IF variant = 1 THEN rebuildGeom(bars, CurPlaced, 0) ELSE <<>>
    /\ pointer = NoPointer
    /\ hoveredId = <<>>
    /\ dragRef = <<>>
    /\ tipRef = FALSE
    /\ tipCount = 0
    /\ calls = 0
    /\ lastCall = <<>>
    /\ drags = 0
    /\ changes = 0
    /\ LanesParked
    /\ ProjParked
    /\ FnParked

\* the points of the surface a pointer-down is tried at: inside each captured
\* rectangle at its vertical centre, and one point outside the chart
SurfacePoints ==
    UNION { { [x |-> geomMap[i].rect.left + off,
               y |-> geomMap[i].rect.top + BarHeight \div 2] :
                off \in GrabOffsets(geomMap[i].rect.width) } : i \in DOMAIN geomMap }
      \cup { [x |-> -1, y |-> -1] }

\* first component: mousedown on the chart content
onSurfaceDown ==
    /\ variant = 1
    /\ drags < MaxDrags
    /\ \E pt \in SurfacePoints :
          LET hit == pickBarAt(geomMap, pt.x, pt.y) IN
          IF hit = <<>>
          THEN UNCHANGED <<dragRef, tipRef, tipCount, drags>>
          ELSE LET xIn == pt.x - hit[1].rect.left
                   mode == DragMode(xIn, hit[1].rect.width)
               IN  /\ dragRef' = <<beginFromElement(hit[1].taskId, mode, pt.x, bars)>>
                   /\ tipRef' = ensureTip(tipRef, tipCount).ref
                   /\ tipCount' = ensureTip(tipRef, tipCount).count
                   /\ drags' = drags + 1
    /\ UNCHANGED <<cfgVars, lanesVars, fnVars, projVars, pickVars, onTasksChange,
                   internalTasks, clientWidth, scrollLeft, snapUnits, bars,
                   calls, lastCall, changes>>

\* second component: mousedown on a bar element
onBarMouseDown ==
    /\ variant = 2
    /\ drags < MaxDrags
    /\ \E id \in DOMAIN bars :
          /\ bars[id].mounted
          /\ \E off \in GrabOffsets(bars[id].width) :
                /\ off >= 0 /\ off <= bars[id].width
                /\ dragRef' = <<beginFromElement(id, DragMode(off, bars[id].width),
                                                 bars[id].left - scrollLeft + off, bars)>>
    /\ tipRef' = ensureTip(tipRef, tipCount).ref
    /\ tipCount' = ensureTip(tipRef, tipCount).count
    /\ drags' = drags + 1
    /\ UNCHANGED <<cfgVars, lanesVars, fnVars, projVars, pickVars, onTasksChange,
                   internalTasks, clientWidth, scrollLeft, snapUnits, bars,
                   calls, lastCall, changes>>

\* window mousemove
onMove ==
    /\ IF dragRef = <<>>
       THEN UNCHANGED <<bars, dragRef, tipRef, tipCount>>
       ELSE \E dx \in DragDeltas :
              LET ds == dragRef[1]
                  st == onMoveStyle(ds, ElStyle(ds, bars), dx, CurScale, snapUnits)
              IN  /\ IF ds.detached
                     THEN /\ dragRef' = <<[ds EXCEPT !.elLeft = st.left,
                                                     !.elWidth = st.width]>>
                          /\ bars' = bars
                     ELSE /\ bars' = [bars EXCEPT ![ds.task].left = st.left,
                                                  ![ds.task].width = st.width]
                          /\ dragRef' = dragRef
                  /\ tipRef' = ensureTip(tipRef, tipCount).ref
                  /\ tipCount' = ensureTip(tipRef, tipCount).count
    /\ UNCHANGED <<cfgVars, lanesVars, fnVars, projVars, pickVars, onTasksChange,
                   internalTasks, clientWidth, scrollLeft, snapUnits,
                   calls, lastCall, drags, changes>>

\* window mouseup
onUp ==
    /\ IF dragRef = <<>>
       THEN /\ tipRef' = hideTip(tipRef, tipCount).ref
            /\ tipCount' = hideTip(tipRef, tipCount).count
            /\ dragRef' = <<>>
            /\ UNCHANGED <<internalTasks, bars, scrollLeft, geomMap, calls, lastCall>>
       ELSE LET ds == dragRef[1]
                change == ChangeRecord(ds, ElStyle(ds, bars), CurScale, snapUnits)
                ts == SetInternalTasksOnUp(internalTasks, ds.task, snapUnits)
            IN  /\ IF onTasksChange = "function"
                   THEN /\ calls' = calls + 1
                        /\ lastCall' = <<[task |-> ds.task, change |-> change]>>
                   ELSE UNCHANGED <<calls, lastCall>>
                /\ internalTasks' = ts
                /\ dragRef' = <<>>
                /\ tipRef' = hideTip(tipRef, tipCount).ref
                /\ tipCount' = hideTip(tipRef, tipCount).count
                /\ Rerender(ts, view, preset, clientWidth, TRUE)
    /\ UNCHANGED <<cfgVars, lanesVars, fnVars, projVars, pointer, hoveredId,
                   onTasksChange, clientWidth, snapUnits, drags, changes>>

\* the scroll handler without its rebuildGeom() call
onScrollNoRebuild ==
    /\ \E sl \in ScrollLefts :
          /\ sl # scrollLeft
          /\ sl = ClampScroll(sl, CurScale, clientWidth)
          /\ scrollLeft' = sl
    /\ UNCHANGED <<cfgVars, lanesVars, fnVars, projVars, pickVars,
                   onTasksChange, internalTasks, clientWidth, snapUnits, bars,
                   dragRef, tipRef, tipCount, calls, lastCall, drags, changes>>

\* scroll event of the bar pane
onScroll ==
    /\ \E sl \in ScrollLefts :
          /\ sl # scrollLeft
          /\ sl = ClampScroll(sl, CurScale, clientWidth)
          /\ scrollLeft' = sl
          /\ geomMap' = IF variant = 1 THEN rebuildGeom(bars, CurPlaced, sl)
                        ELSE geomMap
    /\ UNCHANGED <<cfgVars, lanesVars, fnVars, projVars, pointer, hoveredId,
                   onTasksChange, internalTasks, clientWidth, snapUnits, bars,
                   dragRef, tipRef, tipCount, calls, lastCall, drags, changes>>

\* window resize: the scale hook's tick, a new measured width
onWindowResize ==
    /\ changes < MaxChanges
    /\ changes' = changes + 1
    /\ \E cw \in ViewportWidths :
          /\ cw # clientWidth
          /\ clientWidth' = cw
          /\ Rerender(internalTasks, view, preset, cw, TRUE)
          /\ dragRef' = DetachOnUnmount(dragRef, bars,
                            PlacedOf(internalTasks, view, preset, anchorMonth,
                                     hourViewDate, maxLanes, cw))
    /\ UNCHANGED <<cfgVars, lanesVars, fnVars, projVars, pointer, hoveredId,
                   onTasksChange, internalTasks, snapUnits, tipRef, tipCount,
                   calls, lastCall, drags>>

\* the View select: setView(v); setPreset(defaultPresetFor(v)); the effect on
\* [view, preset] then resets snapUnits to the first option
SetView ==
    /\ changes < MaxChanges
    /\ changes' = changes + 1
    /\ \E v \in Views :
          /\ v # view
          /\ view' = v
          /\ preset' = defaultPresetFor(v)
          /\ snapUnits' = getSnapOptions(v, defaultPresetFor(v))[1]
          /\ Rerender(internalTasks, v, defaultPresetFor(v), clientWidth, TRUE)
          /\ dragRef' = DetachOnUnmount(dragRef, bars,
                            PlacedOf(internalTasks, v, defaultPresetFor(v),
                                     anchorMonth, hourViewDate, maxLanes,
                                     clientWidth))
    /\ UNCHANGED <<variant, anchorMonth, hourViewDate, maxLanes, lanesVars, fnVars,
                   projVars, pointer, hoveredId, onTasksChange, internalTasks,
                   clientWidth, tipRef, tipCount, calls, lastCall, drags>>

\* the Preset select
SetPreset ==
    /\ changes < MaxChanges
    /\ changes' = changes + 1
    /\ \E p \in UiPresets(view) :
          /\ p # preset
          /\ preset' = p
          /\ snapUnits' = getSnapOptions(view, p)[1]
          /\ Rerender(internalTasks, view, p, clientWidth, TRUE)
          /\ dragRef' = DetachOnUnmount(dragRef, bars,
                            PlacedOf(internalTasks, view, p, anchorMonth,
                                     hourViewDate, maxLanes, clientWidth))
    /\ UNCHANGED <<variant, view, anchorMonth, hourViewDate, maxLanes, lanesVars, fnVars,
                   projVars, pointer, hoveredId, onTasksChange, internalTasks,
                   clientWidth, tipRef, tipCount, calls, lastCall, drags>>

\* the Snap select: setSnapUnits(parseFloat(e.target.value)).  The render
\* reruns the layout effect only where `tasks` is a new array, which is the
\* hour view of the first component
SetSnapUnits ==
    /\ changes < MaxChanges
    /\ changes' = changes + 1
    /\ \E su \in UiSnapChoices(view, preset) :
          /\ su # snapUnits
          /\ snapUnits' = su
    /\ Rerender(internalTasks, view, preset, clientWidth, view = "hour")
    /\ UNCHANGED <<cfgVars, lanesVars, fnVars, projVars, pointer, hoveredId,
                   onTasksChange, internalTasks, clientWidth, dragRef, tipRef, tipCount,
                   calls, lastCall, drags>>

Next ==
    \/ onSurfaceDown
    \/ onBarMouseDown
    \/ onMove
    \/ onUp
    \/ onScroll
    \/ onWindowResize
    \/ SetView
    \/ SetPreset
    \/ SetSnapUnits

Spec == UiInit /\ [][Next]_vars

(***************************************************************************)
(* Harness for useGanttScale                                               *)
(***************************************************************************)
\* clientWidth of the scroll pane: 0 while it is not laid out or the ref is
\* not attached (csW falls back), else a measured width
ScaleWidths == {0, 1, 320, 900, 1200}
\* every preset string of the three selects; initialPreset may be any of them
AllPresets == UNION { PresetsOf(v) : v \in Views }

ScaleInit ==
    /\ variant \in {1, 2}
    /\ view \in Views
    /\ preset \in AllPresets
    /\ anchorMonth \in AnchorMonths
    /\ hourViewDate = Today
    /\ maxLanes = DefaultMaxLanes
    /\ LanesParked
    /\ ProjParked
    /\ PickParked
    /\ UiParked
    /\ layoutMemo = <<>>
    /\ ScrollParked
    /\ BandsParked
    /\ SnapParked
    /\ HookParked
    /\ scaleOut = useGanttScale(view, preset, AnchorDateOf(anchorMonth), clientWidth)

\* the View select: setView(v); setPreset(defaultPresetFor(v))
ScaleSetView ==
    \E v \in Views :
        /\ view' = v
        /\ preset' = defaultPresetFor(v)
        /\ scaleOut' = useGanttScale(v, preset', AnchorDateOf(anchorMonth), clientWidth)
        /\ UNCHANGED <<layoutMemo, scrollVars, bandVars, snapVars, hookVars, variant, anchorMonth, hourViewDate, maxLanes, lanesVars,
                       projVars, pickVars, uiVars>>

\* the Preset select of the active view
ScaleSetPreset ==
    \E p \in PresetsOf(view) :
        /\ preset' = p
        /\ scaleOut' = useGanttScale(view, p, AnchorDateOf(anchorMonth), clientWidth)
        /\ UNCHANGED <<layoutMemo, scrollVars, bandVars, snapVars, hookVars, variant, view, anchorMonth, hourViewDate, maxLanes,
                       lanesVars, projVars, pickVars, uiVars>>

\* the month picker
ScaleSetAnchorMonth ==
    \E m \in AnchorMonths :
        /\ anchorMonth' = m
        /\ scaleOut' = useGanttScale(view, preset, AnchorDateOf(m), clientWidth)
        /\ UNCHANGED <<layoutMemo, scrollVars, bandVars, snapVars, hookVars, variant, view, preset, hourViewDate, maxLanes, lanesVars,
                       projVars, pickVars, uiVars>>

\* a window resize: the tick state re-renders and clientWidth is read again
ScaleResize ==
    \E w \in ScaleWidths :
        /\ clientWidth' = w
        /\ scaleOut' = useGanttScale(view, preset, AnchorDateOf(anchorMonth), w)
        /\ UNCHANGED <<layoutMemo, scrollVars, bandVars, snapVars, hookVars, cfgVars, lanesVars, projVars, pickVars, onTasksChange,
                       internalTasks, scrollLeft, snapUnits, bars, dragRef,
                       tipRef, tipCount, calls, lastCall, drags, changes>>

ScaleNext == ScaleSetView \/ ScaleSetPreset \/ ScaleSetAnchorMonth \/ ScaleResize

SpecScale == ScaleInit /\ [][ScaleNext]_vars

(***************************************************************************)
(* Harness for the memoized rowLayout                                      *)
(***************************************************************************)
\* a task whose resourceId names none of the resources
OrphanTask == [id |-> "t9", resourceId |-> "r9",
               start |-> Today * DayTicks + 9 * HourTicks + 30,
               end |-> Today * DayTicks + 10 * HourTicks + 30]
\* tasks on the second view date and in the month after it
LaterTasks ==
    <<[id |-> "t4", resourceId |-> "r2",
       start |-> (MonthStartDay(3) - 1) * DayTicks + 8 * HourTicks,
       end |-> (MonthStartDay(3) - 1) * DayTicks + 10 * HourTicks],
      [id |-> "t5", resourceId |-> "r1",
       start |-> (MonthStartDay(3) + 1) * DayTicks + 8 * HourTicks,
       end |-> (MonthStartDay(3) + 1) * DayTicks + 10 * HourTicks]>>
\* the task lists the owner passes as the tasks prop
LayTaskLists ==
    { UiTasks \o LaterTasks,
      <<OrphanTask>> \o UiTasks \o LaterTasks,
      <<LaterTasks[1], OrphanTask, UiTasks[1]>> }
\* the values of the "Max lanes" select the harness picks
LayMaxLanes == {1, 2, DefaultMaxLanes}

\* the rowLayout a render computes from the state it sees
LayoutOf(ts, v, p, am, hvd, maxL) ==
    rowLayout(UiResources, TasksInView(ts, v), v, p,
              LayoutAnchor(variant, v, am, hvd), maxL, DefaultLaneOffset)

\* `tasks` as a dependency that never changes identity between renders
TasksDepStable(vr, v, wasSet) == wasSet
\* whether the `tasks` dependency differs from the previous render's: after a
\* setInternalTasks, and in the first component's hour view on every render,
\* where downsampleByResource builds a new array
TasksDepChanged(vr, v, wasSet) == wasSet \/ (vr = 1 /\ v = "hour")

\* useMemo(..., [resources, tasks, view, preset, anchorDate, maxLanes,
\* laneOffset, BASE_ROW_PX, scale]): the held value unless a dependency changed
UseMemoRowLayout(ts, v, p, am, hvd, maxL, wasSet) ==
    IF \/ TasksDepChanged(variant, v, wasSet)
       \/ v # view \/ p # preset \/ am # anchorMonth \/ maxL # maxLanes
    THEN LayoutOf(ts, v, p, am, hvd, maxL)
    ELSE layoutMemo

LayUnchangedUi ==
    UNCHANGED <<onTasksChange, clientWidth, scrollLeft, snapUnits, bars, dragRef,
                tipRef, tipCount, calls, lastCall, drags, changes>>

LayInit ==
    /\ variant \in {1, 2}
    /\ view = InitialView(variant)
    /\ preset = defaultPresetFor(view)
    /\ anchorMonth = 2
    /\ hourViewDate = Today
    /\ maxLanes = DefaultMaxLanes
    /\ LanesParked
    /\ ProjParked
    /\ PickParked
    /\ onTasksChange = "undefined"
    /\ internalTasks \in LayTaskLists
    /\ clientWidth = DefaultWidth /\ scrollLeft = 0 /\ snapUnits = 0
    /\ bars = <<>> /\ dragRef = <<>> /\ tipRef = FALSE /\ tipCount = 0
    /\ calls = 0 /\ lastCall = <<>> /\ drags = 0 /\ changes = 0
    /\ scaleOut = NoScale
    /\ ScrollParked
    /\ BandsParked
    /\ SnapParked
    /\ HookParked
    /\ layoutMemo = LayoutOf(internalTasks, view, preset, anchorMonth,
                             hourViewDate, maxLanes)

\* a new tasks prop: the effect calls setInternalTasks(normalizedIncoming)
LaySetTasks ==
    \E ts \in LayTaskLists :
        /\ ts # internalTasks
        /\ internalTasks' = ts
        /\ layoutMemo' = UseMemoRowLayout(ts, view, preset, anchorMonth,
                                          hourViewDate, maxLanes, TRUE)
        /\ LayUnchangedUi
        /\ UNCHANGED <<cfgVars, lanesVars, projVars, pickVars, scaleOut, scrollVars, bandVars, snapVars, hookVars>>

LaySetView ==
    \E v \in Views :
        /\ view' = v
        /\ preset' = defaultPresetFor(v)
        /\ layoutMemo' = UseMemoRowLayout(internalTasks, v, preset', anchorMonth,
                                          hourViewDate, maxLanes, FALSE)
        /\ LayUnchangedUi
        /\ UNCHANGED <<variant, anchorMonth, hourViewDate, maxLanes, lanesVars,
                       projVars, pickVars, internalTasks, scaleOut, scrollVars, bandVars, snapVars, hookVars>>

LaySetPreset ==
    \E p \in PresetsOf(view) :
        /\ preset' = p
        /\ layoutMemo' = UseMemoRowLayout(internalTasks, view, p, anchorMonth,
                                          hourViewDate, maxLanes, FALSE)
        /\ LayUnchangedUi
        /\ UNCHANGED <<variant, view, anchorMonth, hourViewDate, maxLanes,
                       lanesVars, projVars, pickVars, internalTasks, scaleOut, scrollVars, bandVars, snapVars, hookVars>>

\* the month picker; the tasks effect (deps anchorDate) sets the same
\* normalizedIncoming array again, which React ignores
LaySetAnchorMonth ==
    \E m \in AnchorMonths :
        /\ anchorMonth' = m
        /\ layoutMemo' = UseMemoRowLayout(internalTasks, view, preset, m,
                                          hourViewDate, maxLanes, FALSE)
        /\ LayUnchangedUi
        /\ UNCHANGED <<variant, view, preset, hourViewDate, maxLanes, lanesVars,
                       projVars, pickVars, internalTasks, scaleOut, scrollVars, bandVars, snapVars, hookVars>>

\* the View Date input, rendered by the first component in hour view only
LaySetViewDate ==
    /\ variant = 1 /\ view = "hour"
    /\ \E d \in ViewDates :
        /\ hourViewDate' = d
        /\ layoutMemo' = UseMemoRowLayout(internalTasks, view, preset, anchorMonth,
                                          d, maxLanes, FALSE)
        /\ LayUnchangedUi
        /\ UNCHANGED <<variant, view, preset, anchorMonth, maxLanes, lanesVars,
                       projVars, pickVars, internalTasks, scaleOut, scrollVars, bandVars, snapVars, hookVars>>

LaySetMaxLanes ==
    \E n \in LayMaxLanes :
        /\ maxLanes' = n
        /\ layoutMemo' = UseMemoRowLayout(internalTasks, view, preset, anchorMonth,
                                          hourViewDate, n, FALSE)
        /\ LayUnchangedUi
        /\ UNCHANGED <<variant, view, preset, anchorMonth, hourViewDate, lanesVars,
                       projVars, pickVars, internalTasks, scaleOut, scrollVars, bandVars, snapVars, hookVars>>

LayNext ==
    \/ LaySetTasks \/ LaySetView \/ LaySetPreset \/ LaySetAnchorMonth
    \/ LaySetViewDate \/ LaySetMaxLanes

SpecLayout == LayInit /\ [][LayNext]_vars

(***************************************************************************)
(* Harness for the scroll synchronisation                                  *)
(***************************************************************************)
\* The body is a flex row: the name column (overflow hidden) and the bar
\* pane (overflow auto) have the body's height, and both hold the same rows.
\* The bar pane loses the height of its horizontal scrollbar when the content
\* is wider than the pane, on a platform whose scrollbars take space.
TableMaxTop == RowsOverflowPx
ChartMaxTop(sc, cw, sb) ==
    RowsOverflowPx + (IF ContentPx(sc) > cw THEN sb ELSE 0)

\* element.scrollTop = v: the element scrolls to v clamped to its range
SetScrollTop(v, maxTop) == Min2(Max2(0, v), maxTop)

\* the positions the user scrolls the bar pane to
ScrollTops == {0, 10, RowsOverflowPx, RowsOverflowPx + HScrollbarPx}

\* onScroll: ruler transform and name column follow the bar pane
OnScrollTimelineX(sl) == sl
OnScrollTableTop(st) == SetScrollTop(st, TableMaxTop)

ScrollUnchanged ==
    UNCHANGED <<lanesVars, projVars, pickVars, onTasksChange, internalTasks,
                clientWidth, snapUnits, bars, dragRef, tipRef, tipCount, calls,
                lastCall, drags, changes, scaleOut, layoutMemo, scrollbarPx,
                bandVars, snapVars, hookVars>>

ScrollInit ==
    /\ variant \in {1, 2}
    /\ view = InitialView(variant)
    /\ preset = defaultPresetFor(view)
    /\ anchorMonth = 2
    /\ hourViewDate = Today
    /\ maxLanes = DefaultMaxLanes
    /\ LanesParked
    /\ ProjParked
    /\ PickParked
    /\ onTasksChange = "undefined" /\ internalTasks = <<>>
    /\ clientWidth \in ViewportWidths
    /\ scrollLeft = 0 /\ snapUnits = 0
    /\ bars = <<>> /\ dragRef = <<>> /\ tipRef = FALSE /\ tipCount = 0
    /\ calls = 0 /\ lastCall = <<>> /\ drags = 0 /\ changes = 0
    /\ scaleOut = NoScale /\ layoutMemo = <<>>
    /\ BandsParked
    /\ SnapParked
    /\ HookParked
    /\ scrollbarPx \in {0, HScrollbarPx}
    /\ scrollTop = 0 /\ timelineX = 0 /\ tableScrollTop = 0

\* the user scrolls the bar pane; the browser keeps the position inside the
\* pane's range and dispatches the scroll event, whose handler is onScroll
ScrollEvent ==
    \E x \in ScrollLefts, y \in ScrollTops :
        /\ scrollLeft' = ClampScroll(x, CurScale, clientWidth)
        /\ scrollTop' = SetScrollTop(y, ChartMaxTop(CurScale, clientWidth, scrollbarPx))
        /\ timelineX' = OnScrollTimelineX(scrollLeft')
        /\ tableScrollTop' = OnScrollTableTop(scrollTop')
        /\ UNCHANGED cfgVars
        /\ ScrollUnchanged

\* a re-render with a new view and preset: the width effect clamps scrollLeft
\* and sets the transform; the browser keeps scrollTop inside the new range;
\* a position that changed dispatches a scroll event
ScrollRerender(v, p) ==
    LET sc == ScaleOf(v, p, anchorMonth, clientWidth)
        sl == ClampScroll(scrollLeft, sc, clientWidth)
        st == SetScrollTop(scrollTop, ChartMaxTop(sc, clientWidth, scrollbarPx))
        moved == sl # scrollLeft \/ st # scrollTop
    IN  /\ view' = v
        /\ preset' = p
        /\ scrollLeft' = sl
        /\ scrollTop' = st
        /\ timelineX' = IF moved THEN OnScrollTimelineX(sl)
                        ELSE IF v = "week" THEN 0 ELSE sl
        /\ tableScrollTop' = IF moved THEN OnScrollTableTop(st) ELSE tableScrollTop
        /\ UNCHANGED <<variant, anchorMonth, hourViewDate, maxLanes>>
        /\ ScrollUnchanged

ScrollSetView == \E v \in Views : v # view /\ ScrollRerender(v, defaultPresetFor(v))

ScrollSetPreset == \E p \in PresetsOf(view) : p # preset /\ ScrollRerender(view, p)

ScrollNext == ScrollEvent \/ ScrollSetView \/ ScrollSetPreset

SpecScroll == ScrollInit /\ [][ScrollNext]_vars

(***************************************************************************)
(* Weekend bands of the second component: ruler and bar-pane overlay       *)
(***************************************************************************)
\* Math.floor(units * pxPerUnit) for a whole number of view-units
FloorPx(units, sc) == (units * sc.pxNum) \div sc.pxDen

\* bandFor of renderMonthTimeline with Math.round, as the first component
\* rounds its ruler
bandForMonthRound(unitIndex, sc) ==
    LET left == MathRound(unitIndex * sc.pxNum, sc.pxDen)
        right == MathRound((unitIndex + 1) * sc.pxNum, sc.pxDen)
    IN  [left |-> left, width |-> Max2(1, right - left)]

\* bandFor, local to renderMonthTimeline
bandForMonth(unitIndex, sc) ==
    LET left == FloorPx(unitIndex, sc)
        right == FloorPx(unitIndex + 1, sc)
    IN  [left |-> left, width |-> Max2(1, right - left)]

\* bandFor, local to renderWeekTimeline
bandForWeek(unitIndex, sc) ==
    LET left == FloorPx(unitIndex, sc)
        right == FloorPx(unitIndex + 1, sc)
    IN  [left |-> left, width |-> Max2(1, right - left)]

\* bandFor, local to computeWeekendBandsPx
bandFor(unitIndex, sc) ==
    LET left == FloorPx(unitIndex, sc)
        right == FloorPx(unitIndex + 1, sc)
    IN  [left |-> left, width |-> Max2(1, right - left)]

\* the days d in 1..dim of the anchor's month that fall on Saturday or Sunday
WeekendDays(anchorDate, dim) ==
    SelectSeq([d \in 1..dim |-> d],
              LAMBDA d : getDay(anchorDate + (d - 1) * DayTicks) \in {0, 6})

\* the weekend bands renderMonthTimeline appends to the ruler
renderMonthTimeline(sc, totalDays, anchorDate) ==
    LET wd == WeekendDays(anchorDate, totalDays)
    IN  [k \in 1..Len(wd) |-> bandForMonth(wd[k] - 1, sc)]

\* the weekend bands renderWeekTimeline appends to the ruler
renderWeekTimeline(p, sc) ==
    IF IsWork(p) THEN <<>> ELSE <<bandForWeek(0, sc), bandForWeek(6, sc)>>

\* the unit gridlines the timeline effect draws, `for (u = 0; u <= total; u++)`:
\* the first component rounds (its week ruler divides the ruler's own
\* clientWidth, which the width effect has set to W, by the day count), the
\* second floors
TimelineLines(vr, v, p, sc) ==
    [k \in 1..(sc.totalUnits + 1) |->
        IF vr = 2 THEN FloorPx(k - 1, sc)
        ELSE IF v = "week"
        THEN MathRound((k - 1) * (IF ContentPx(sc) = 0 THEN WeekRulerFallback
                                  ELSE ContentPx(sc)),
                       IF IsWork(p) THEN 5 ELSE 7)
        ELSE MathRound((k - 1) * sc.pxNum, sc.pxDen)]

\* the timeline effect: renderHourTimeline draws no band
TimelineBands(v, p, anchorDate, sc) ==
    IF v = "hour" THEN <<>>
    ELSE IF v = "month" THEN renderMonthTimeline(sc, daysInMonth(anchorDate), anchorDate)
    ELSE renderWeekTimeline(p, sc)

computeWeekendBandsPx(v, p, anchorDate, sc) ==
    IF sc.pxNum = 0 THEN <<>>
    ELSE IF v = "month"
    THEN LET wd == WeekendDays(anchorDate, daysInMonth(anchorDate))
         IN  [k \in 1..Len(wd) |-> bandFor(wd[k] - 1, sc)]
    ELSE IF v = "week" /\ ~IsWork(p) THEN <<bandFor(0, sc), bandFor(6, sc)>>
    ELSE <<>>

\* a render of the second component and its commit: the memoized overlay
\* bands and the ruler drawn by the timeline effect (same dependencies)
BandsRender(v, p, m, w) ==
    LET sc == useGanttScale(v, p, AnchorDateOf(m), w)
    IN  /\ scaleOut' = sc
        /\ weekendBands' = computeWeekendBandsPx(v, p, AnchorDateOf(m), sc)
        /\ rulerBands' = TimelineBands(v, p, AnchorDateOf(m), sc)
        /\ rulerLines' = TimelineLines(variant, v, p, sc)

BandsUnchangedUi ==
    UNCHANGED <<onTasksChange, internalTasks, scrollLeft, snapUnits, bars,
                dragRef, tipRef, tipCount, calls, lastCall, drags, changes>>

BandsInit ==
    /\ variant = 2
    /\ view \in Views
    /\ preset \in AllPresets
    /\ anchorMonth \in AnchorMonths
    /\ hourViewDate = Today
    /\ maxLanes = DefaultMaxLanes
    /\ LanesParked
    /\ ProjParked
    /\ PickParked
    /\ UiParked
    /\ layoutMemo = <<>>
    /\ ScrollParked
    /\ SnapParked
    /\ HookParked
    /\ scaleOut = useGanttScale(view, preset, AnchorDateOf(anchorMonth), clientWidth)
    /\ weekendBands = computeWeekendBandsPx(view, preset, AnchorDateOf(anchorMonth), scaleOut)
    /\ rulerBands = TimelineBands(view, preset, AnchorDateOf(anchorMonth), scaleOut)
    /\ rulerLines = TimelineLines(variant, view, preset, scaleOut)

BandsSetView ==
    \E v \in Views :
        /\ view' = v
        /\ preset' = defaultPresetFor(v)
        /\ BandsRender(v, preset', anchorMonth, clientWidth)
        /\ BandsUnchangedUi
        /\ UNCHANGED <<variant, anchorMonth, hourViewDate, maxLanes, lanesVars,
                       projVars, pickVars, clientWidth, layoutMemo, scrollVars, snapVars, hookVars>>

BandsSetPreset ==
    \E p \in PresetsOf(view) :
        /\ preset' = p
        /\ BandsRender(view, p, anchorMonth, clientWidth)
        /\ BandsUnchangedUi
        /\ UNCHANGED <<variant, view, anchorMonth, hourViewDate, maxLanes,
                       lanesVars, projVars, pickVars, clientWidth, layoutMemo,
                       scrollVars, snapVars, hookVars>>

BandsSetAnchorMonth ==
    \E m \in AnchorMonths :
        /\ anchorMonth' = m
        /\ BandsRender(view, preset, m, clientWidth)
        /\ BandsUnchangedUi
        /\ UNCHANGED <<variant, view, preset, hourViewDate, maxLanes, lanesVars,
                       projVars, pickVars, clientWidth, layoutMemo, scrollVars, snapVars, hookVars>>

BandsResize ==
    \E w \in ScaleWidths :
        /\ clientWidth' = w
        /\ BandsRender(view, preset, anchorMonth, w)
        /\ BandsUnchangedUi
        /\ UNCHANGED <<cfgVars, lanesVars, projVars, pickVars, layoutMemo,
                       scrollVars, snapVars, hookVars>>

BandsNext == BandsSetView \/ BandsSetPreset \/ BandsSetAnchorMonth \/ BandsResize

SpecBands == BandsInit /\ [][BandsNext]_vars

(***************************************************************************)
(* Harness for snapPx and the move branch of onMove                        *)
(* (the two components' useBarDrag have the same snapPx and onMove)        *)
(***************************************************************************)
\* starts of the bar's segment, in ticks into the window: on every snap
\* grid (0 and 09:00) and seven minutes past a quarter hour
SnapStarts == {0, 9 * HourTicks, 9 * HourTicks + 7}
\* e.clientX - ds.startX of a pointer-move
SnapDeltas == (-MaxSnapDx)..MaxSnapDx
\* the units of every option the Snap select offers
SnapOptionsOf(v, p) == { getSnapOptions(v, p)[i] : i \in DOMAIN getSnapOptions(v, p) }

\* the left of the bar as rendered: segToPixels(seg, scale).leftPx
SnapOrigLeft(v, p, w, start) ==
    UnitsToPx(start, useGanttScale(v, p, AnchorDateOf(anchorMonth), w))

SnapUnchangedUi ==
    UNCHANGED <<onTasksChange, internalTasks, clientWidth, scrollLeft, bars,
                dragRef, tipRef, tipCount, calls, lastCall, drags, changes>>

SnapInit ==
    /\ variant = 1
    /\ view \in Views
    /\ preset \in PresetsOf(view)
    /\ anchorMonth = 2
    /\ hourViewDate = Today
    /\ maxLanes = DefaultMaxLanes
    /\ LanesParked
    /\ ProjParked
    /\ PickParked
    /\ onTasksChange = "undefined" /\ internalTasks = <<>>
    /\ clientWidth \in ViewportWidths
    /\ scrollLeft = 0
    /\ snapUnits = getSnapOptions(view, preset)[1]
    /\ bars = <<>> /\ dragRef = <<>> /\ tipRef = FALSE /\ tipCount = 0
    /\ calls = 0 /\ lastCall = <<>> /\ drags = 0 /\ changes = 0
    /\ scaleOut = NoScale /\ layoutMemo = <<>>
    /\ ScrollParked
    /\ BandsParked
    /\ HookParked
    /\ snapStart \in SnapStarts
    /\ snapDx = <<>>
    /\ snapOut = SnapOrigLeft(view, preset, clientWidth, snapStart)
    /\ snapOut2 = snapOut

\* onMove in mode 'move': style.left = snapPx(ds.origLeft + dx); the harness
\* also applies snapPx to the result
SnapMove ==
    \E dx \in SnapDeltas :
        LET sc == CurScale
            origLeft == SnapOrigLeft(view, preset, clientWidth, snapStart)
            newLeft == snapPx(origLeft + dx, sc, snapUnits)
        IN  /\ snapDx' = <<dx>>
            /\ snapOut' = newLeft
            /\ snapOut2' = snapPx(newLeft, sc, snapUnits)
            /\ SnapUnchangedUi
            /\ UNCHANGED <<cfgVars, lanesVars, projVars, pickVars, snapUnits,
                           scaleOut, layoutMemo, scrollVars, bandVars, hookVars, snapStart>>

\* the Snap select; the bar is rendered at its segment again
SnapSetSnapUnits ==
    \E u \in SnapOptionsOf(view, preset) :
        /\ snapUnits' = u
        /\ snapDx' = <<>>
        /\ snapOut' = SnapOrigLeft(view, preset, clientWidth, snapStart)
        /\ snapOut2' = snapOut'
        /\ SnapUnchangedUi
        /\ UNCHANGED <<cfgVars, lanesVars, projVars, pickVars, scaleOut,
                       layoutMemo, scrollVars, bandVars, hookVars, snapStart>>

\* the Preset select; the effect on [view, preset] selects the first option
SnapSetPreset ==
    \E p \in PresetsOf(view) :
        /\ preset' = p
        /\ snapUnits' = getSnapOptions(view, p)[1]
        /\ snapDx' = <<>>
        /\ snapOut' = SnapOrigLeft(view, p, clientWidth, snapStart)
        /\ snapOut2' = snapOut'
        /\ SnapUnchangedUi
        /\ UNCHANGED <<variant, view, anchorMonth, hourViewDate, maxLanes,
                       lanesVars, projVars, pickVars, scaleOut, layoutMemo,
                       scrollVars, bandVars, hookVars, snapStart>>

SnapNext == SnapMove \/ SnapSetSnapUnits \/ SnapSetPreset

SpecSnap == SnapInit /\ [][SnapNext]_vars

(***************************************************************************)
(* Harness for useBarDrag as a unit: its scale argument may be absent      *)
(***************************************************************************)
\* the scale the owner passes when it has one
HookScaleValue == useGanttScale("hour", "24 Hours", AnchorDateOf(2), DefaultWidth)
\* the one bar element the owner renders: task t1 of UiTasks
HookBar ==
    LET px == segToPixels([startUnit |-> 9 * HourTicks, endUnit |-> 11 * HourTicks],
                          HookScaleValue)
    IN  [mounted |-> TRUE, left |-> px.leftPx, width |-> px.widthPx,
         pLeft |-> px.leftPx, pWidth |-> px.widthPx]

HookUnchanged ==
    UNCHANGED <<cfgVars, lanesVars, projVars, pickVars, onTasksChange,
                internalTasks, clientWidth, scrollLeft, snapUnits, changes,
                scaleOut, layoutMemo, scrollVars, bandVars, snapVars>>

HookInit ==
    /\ variant \in {1, 2}
    /\ view = "hour"
    /\ preset = "24 Hours"
    /\ anchorMonth = 2
    /\ hourViewDate = Today
    /\ maxLanes = DefaultMaxLanes
    /\ LanesParked
    /\ ProjParked
    /\ PickParked
    /\ onTasksChange \in {"function", "undefined"}
    /\ internalTasks = <<UiTasks[1]>>
    /\ clientWidth = DefaultWidth /\ scrollLeft = 0
    /\ snapUnits \in SnapOptionsOf(view, preset)
    /\ bars = [id \in {"t1"} |-> HookBar]
    /\ dragRef = <<>> /\ tipRef = FALSE /\ tipCount = 0
    /\ calls = 0 /\ lastCall = <<>> /\ drags = 0 /\ changes = 0
    /\ scaleOut = NoScale /\ layoutMemo = <<>>
    /\ ScrollParked
    /\ BandsParked
    /\ SnapParked
    /\ hookScale \in {<<>>, <<HookScaleValue>>}
    /\ threw = FALSE

\* beginFromElement (first component) / onBarMouseDown (second): the drag
\* state is assigned and the cursor set before scale.pxPerUnit is read for
\* the tooltip; with no scale that read throws and updateTip is not reached
HookDown ==
    /\ drags < MaxDrags
    /\ \E off \in GrabOffsets(bars["t1"].width) :
          dragRef' = <<beginFromElement("t1", DragMode(off, bars["t1"].width),
                                        bars["t1"].left + off, bars)>>
    /\ IF hookScale = <<>>
       THEN /\ threw' = TRUE
            /\ UNCHANGED <<tipRef, tipCount>>
       ELSE /\ threw' = FALSE
            /\ tipRef' = ensureTip(tipRef, tipCount).ref
            /\ tipCount' = ensureTip(tipRef, tipCount).count
    /\ drags' = drags + 1
    /\ UNCHANGED <<bars, calls, lastCall, hookScale>>
    /\ HookUnchanged

\* onMove: if (!dragRef.current || !scale) return
HookMove ==
    /\ IF dragRef = <<>> \/ hookScale = <<>>
       THEN UNCHANGED <<bars, tipRef, tipCount>>
       ELSE \E dx \in DragDeltas :
              LET ds == dragRef[1]
                  st == onMoveStyle(ds, ElStyle(ds, bars), dx, hookScale[1], snapUnits)
              IN  /\ bars' = [bars EXCEPT ![ds.task].left = st.left,
                                          ![ds.task].width = st.width]
                  /\ tipRef' = ensureTip(tipRef, tipCount).ref
                  /\ tipCount' = ensureTip(tipRef, tipCount).count
    /\ threw' = FALSE
    /\ UNCHANGED <<dragRef, calls, lastCall, drags, hookScale>>
    /\ HookUnchanged

\* onUp: if (!dragRef.current || !scale) { hideTip(); dragRef.current = null; return; }
HookUp ==
    /\ IF dragRef = <<>> \/ hookScale = <<>>
       THEN UNCHANGED <<calls, lastCall>>
       ELSE LET ds == dragRef[1]
                change == ChangeRecord(ds, ElStyle(ds, bars), hookScale[1], snapUnits)
            IN  IF onTasksChange = "function"
                THEN /\ calls' = calls + 1
                     /\ lastCall' = <<[task |-> ds.task, change |-> change]>>
                ELSE UNCHANGED <<calls, lastCall>>
    /\ dragRef' = <<>>
    /\ tipRef' = hideTip(tipRef, tipCount).ref
    /\ tipCount' = hideTip(tipRef, tipCount).count
    /\ threw' = FALSE
    /\ UNCHANGED <<bars, drags, hookScale>>
    /\ HookUnchanged

\* the owner renders the hook with another scale argument; the effect
\* registers the handlers again
HookSetScale ==
    /\ hookScale' = IF hookScale = <<>> THEN <<HookScaleValue>> ELSE <<>>
    /\ UNCHANGED <<bars, dragRef, tipRef, tipCount, calls, lastCall, drags, threw>>
    /\ HookUnchanged

HookNext == HookDown \/ HookMove \/ HookUp \/ HookSetScale

SpecHook == HookInit /\ [][HookNext]_vars

(***************************************************************************)
(* Harness for the geometry index: the first component with every input of *)
(* bar layout changing between pointer-downs                               *)
(***************************************************************************)
\* the task lists the owner passes as the tasks prop
IndexTaskLists == { UiTasks, <<UiTasks[1], UiTasks[3]>> }
\* the values of the "Max lanes" select the harness picks
IndexMaxLanes == {1, DefaultMaxLanes}

\* a render after a change of the month, the view date, the lane cap or the
\* task list, its commit, the layout effect and the width effect
RerenderWith(ts, am, hvd, maxL, rebuild) ==
    LET placed == PlacedOf(ts, view, preset, am, hvd, maxL, clientWidth)
        bs == Commit(bars, placed)
        sl == ClampScroll(scrollLeft, ScaleOf(view, preset, am, clientWidth),
                          clientWidth)
    IN  /\ bars' = bs
        /\ scrollLeft' = sl
        /\ geomMap' = IF variant = 1 /\ (rebuild \/ sl # scrollLeft)
                      THEN rebuildGeom(bs, placed, sl)
                      ELSE geomMap
        /\ dragRef' = DetachOnUnmount(dragRef, bars, placed)

IndexUnchanged ==
    UNCHANGED <<variant, view, preset, lanesVars, fnVars, projVars, pointer,
                hoveredId, onTasksChange, clientWidth, snapUnits, tipRef,
                tipCount, calls, lastCall, drags>>

IndexInit ==
    /\ UiInit
    /\ variant = 1
    /\ onTasksChange = "function"
    /\ clientWidth = DefaultWidth

\* a new tasks prop: the effect calls setInternalTasks(normalizedIncoming)
IndexSetTasks ==
    /\ changes < MaxChanges
    /\ changes' = changes + 1
    /\ \E ts \in IndexTaskLists :
          /\ ts # internalTasks
          /\ internalTasks' = ts
          /\ RerenderWith(ts, anchorMonth, hourViewDate, maxLanes,
                          TasksDepChanged(variant, view, TRUE))
    /\ IndexUnchanged
    /\ UNCHANGED <<anchorMonth, hourViewDate, maxLanes>>

\* the Month input: anchorDate is a new Date, a dependency of the layout effect
IndexSetAnchorMonth ==
    /\ changes < MaxChanges
    /\ changes' = changes + 1
    /\ \E m \in AnchorMonths :
          /\ m # anchorMonth
          /\ anchorMonth' = m
          /\ RerenderWith(internalTasks, m, hourViewDate, maxLanes, TRUE)
    /\ IndexUnchanged
    /\ UNCHANGED <<internalTasks, hourViewDate, maxLanes>>

\* the View Date input of the hour view: no dependency of the layout effect
\* names hourViewDate, the effect reruns when `tasks` is a new array
IndexSetViewDate ==
    /\ view = "hour"
    /\ changes < MaxChanges
    /\ changes' = changes + 1
    /\ \E d \in ViewDates :
          /\ d # hourViewDate
          /\ hourViewDate' = d
          /\ RerenderWith(internalTasks, anchorMonth, d, maxLanes,
                          TasksDepChanged(variant, view, FALSE))
    /\ IndexUnchanged
    /\ UNCHANGED <<internalTasks, anchorMonth, maxLanes>>

\* the "Max lanes" select
IndexSetMaxLanes ==
    /\ changes < MaxChanges
    /\ changes' = changes + 1
    /\ \E n \in IndexMaxLanes :
          /\ n # maxLanes
          /\ maxLanes' = n
          /\ RerenderWith(internalTasks, anchorMonth, hourViewDate, n, TRUE)
    /\ IndexUnchanged
    /\ UNCHANGED <<internalTasks, anchorMonth, hourViewDate>>

IndexNext ==
    \/ onSurfaceDown
    \/ onMove
    \/ onUp
    \/ onScroll
    \/ onWindowResize
    \/ SetView
    \/ SetPreset
    \/ SetSnapUnits
    \/ IndexSetTasks
    \/ IndexSetAnchorMonth
    \/ IndexSetViewDate
    \/ IndexSetMaxLanes

SpecIndex == IndexInit /\ [][IndexNext]_vars

(***************************************************************************)
(* Harness for the pointer-down: offsets at and around both 8-pixel edges   *)
(***************************************************************************)
\* horizontal offsets inside a bar of width w at which the pointer goes down
DownOffsets(w) ==
    {0, EdgePx - 1, EdgePx, w - EdgePx - 1, w - EdgePx, w - EdgePx + 1, w - 1}
       \cap (0..(w - 1))

\* the points of the surface: inside each captured rectangle at its vertical
\* centre, left of it, above it, and one point outside the chart
DownPoints ==
    UNION { { [x |-> geomMap[i].rect.left + off,
               y |-> geomMap[i].rect.top + BarHeight \div 2] :
                off \in DownOffsets(geomMap[i].rect.width) \cup {-1} }
            \cup { [x |-> geomMap[i].rect.left, y |-> geomMap[i].rect.top - 1] } :
            i \in DOMAIN geomMap }
      \cup { [x |-> -1, y |-> -1] }

DownUnchanged ==
    UNCHANGED <<cfgVars, lanesVars, fnVars, projVars, geomMap, hoveredId,
                onTasksChange, internalTasks, clientWidth, scrollLeft, snapUnits,
                bars, calls, lastCall, changes>>

\* first component: mousedown on the chart content at clientX, clientY
DownOnSurface ==
    /\ variant = 1
    /\ drags < MaxDrags
    /\ \E pt \in DownPoints :
          LET hit == pickBarAt(geomMap, pt.x, pt.y) IN
          /\ pt # pointer
          /\ pointer' = pt
          /\ IF hit = <<>>
             THEN UNCHANGED <<dragRef, tipRef, tipCount, drags>>
             ELSE LET xIn == pt.x - hit[1].rect.left
                      mode == DragMode(xIn, hit[1].rect.width)
                  IN  /\ dragRef' = <<beginFromElement(hit[1].taskId, mode, pt.x, bars)>>
                      /\ tipRef' = ensureTip(tipRef, tipCount).ref
                      /\ tipCount' = ensureTip(tipRef, tipCount).count
                      /\ drags' = drags + 1
    /\ DownUnchanged

\* second component: mousedown on a bar element
DownOnBar ==
    /\ variant = 2
    /\ drags < MaxDrags
    /\ \E id \in DOMAIN bars :
          /\ bars[id].mounted
          /\ \E off \in DownOffsets(bars[id].width) :
                dragRef' = <<beginFromElement(id, DragMode(off, bars[id].width),
                                              bars[id].left - scrollLeft + off, bars)>>
    /\ tipRef' = ensureTip(tipRef, tipCount).ref
    /\ tipCount' = ensureTip(tipRef, tipCount).count
    /\ drags' = drags + 1
    /\ pointer' = pointer
    /\ DownUnchanged

DownNext ==
    \/ DownOnSurface
    \/ DownOnBar
    \/ onUp
    \/ onScroll
    \/ onWindowResize
    \/ SetView
    \/ SetPreset

SpecDown == UiInit /\ [][DownNext]_vars

(***************************************************************************)
(* Harness for horizontal scrolling with rendered bars: the bar pane's      *)
(* scroll range, the width effect and the scroll handler                    *)
(***************************************************************************)
\* a task in the last ten minutes of the week that starts on `Today`
LateTask ==
    [id |-> "t3", resourceId |-> "r2",
     start |-> (Today + 6) * DayTicks + 23 * HourTicks + 50,
     end |-> (Today + 7) * DayTicks]
\* the task lists the owner passes as the tasks prop
WeekTaskLists == { UiTasks, <<UiTasks[1], UiTasks[2], LateTask>> }

\* the greatest element of a non-empty set of integers
SetMax(S) == CHOOSE m \in S : \A n \in S : n <= m

\* scrollWidth of #gantt-chart-scroll: the content element is W wide and
\* clips nothing, so an absolutely positioned bar that ends right of W
\* extends the scrollable overflow
ScrollWidth(bs, sc) ==
    SetMax({ContentPx(sc)}
             \cup { bs[id].left + bs[id].width : id \in { i \in DOMAIN bs : bs[i].mounted } })

\* the greatest scrollLeft the browser lets the pane take
ScrollLeftMax(bs, sc, cw) == Max2(0, ScrollWidth(bs, sc) - cw)

\* the positions the user scrolls the bar pane to
WeekScrollLefts == {0, 3, 100}

WeekUnchanged ==
    UNCHANGED <<variant, anchorMonth, hourViewDate, maxLanes, lanesVars,
                projVars, pickVars, onTasksChange, snapUnits, dragRef, tipRef,
                tipCount, calls, lastCall, drags, changes, scaleOut, layoutMemo,
                scrollTop, tableScrollTop, scrollbarPx, bandVars, snapVars,
                hookVars>>

WeekInit ==
    /\ \E vr \in {1, 2} : CfgInit(vr)
    /\ onTasksChange = "undefined"
    /\ internalTasks \in WeekTaskLists
    /\ clientWidth \in ViewportWidths
    /\ scrollLeft = 0
    /\ snapUnits = getSnapOptions(view, preset)[1]
    /\ bars = Commit([id \in {"t1", "t2", "t3"} |-> NoBar], CurPlaced)
    /\ dragRef = <<>> /\ tipRef = FALSE /\ tipCount = 0
    /\ calls = 0 /\ lastCall = <<>> /\ drags = 0 /\ changes = 0
    /\ LanesParked
    /\ ProjParked
    /\ PickParked
    /\ FnParked

\* the user scrolls the bar pane sideways; onScroll moves the ruler
WeekScroll ==
    /\ \E x \in WeekScrollLefts :
          LET sl == Min2(x, ScrollLeftMax(bars, CurScale, clientWidth)) IN
          /\ sl # scrollLeft
          /\ scrollLeft' = sl
          /\ timelineX' = OnScrollTimelineX(sl)
    /\ UNCHANGED <<view, preset, internalTasks, clientWidth, bars>>
    /\ WeekUnchanged

\* a render with a new view, preset or width: the commit, then the width
\* effect (clamp to W - clientWidth, transform 0 in week view), then the
\* scroll event of a position that changed
WeekRerender(v, p, cw) ==
    LET sc == ScaleOf(v, p, anchorMonth, cw)
        bs == Commit(bars, PlacedOf(internalTasks, v, p, anchorMonth,
                                    hourViewDate, maxLanes, cw))
        sl == Min2(scrollLeft, Max2(0, ContentPx(sc) - cw))
    IN  /\ view' = v
        /\ preset' = p
        /\ clientWidth' = cw
        /\ bars' = bs
        /\ scrollLeft' = sl
        /\ timelineX' = IF sl # scrollLeft THEN OnScrollTimelineX(sl)
                        ELSE IF v = "week" THEN 0 ELSE sl
        /\ UNCHANGED internalTasks
        /\ WeekUnchanged

WeekSetView ==
    \E v \in Views : v # view /\ WeekRerender(v, defaultPresetFor(v), clientWidth)

WeekSetPreset ==
    \E p \in PresetsOf(view) : p # preset /\ WeekRerender(view, p, clientWidth)

WeekResize ==
    \E cw \in ViewportWidths : cw # clientWidth /\ WeekRerender(view, preset, cw)

\* a new tasks prop: the scale is the memoised one, so the width effect does
\* not run; the browser keeps scrollLeft inside the new range and a position
\* that changed dispatches the scroll event
WeekSetTasks ==
    /\ \E ts \in WeekTaskLists :
          LET bs == Commit(bars, PlacedOf(ts, view, preset, anchorMonth,
                                          hourViewDate, maxLanes, clientWidth))
              sl == Min2(scrollLeft, ScrollLeftMax(bs, CurScale, clientWidth))
          IN  /\ ts # internalTasks
              /\ internalTasks' = ts
              /\ bars' = bs
              /\ scrollLeft' = sl
              /\ timelineX' = IF sl # scrollLeft THEN OnScrollTimelineX(sl)
                              ELSE timelineX
    /\ UNCHANGED <<view, preset, clientWidth>>
    /\ WeekUnchanged

WeekNext ==
    \/ WeekScroll
    \/ WeekSetView
    \/ WeekSetPreset
    \/ WeekResize
    \/ WeekSetTasks

SpecWeek == WeekInit /\ [][WeekNext]_vars

(***************************************************************************)
(* Harness for the ruler's gridlines against segToPixels, both components   *)
(***************************************************************************)
RulerRender(v, p, m, w) ==
    LET sc == useGanttScale(v, p, AnchorDateOf(m), w)
    IN  /\ scaleOut' = sc
        /\ rulerLines' = TimelineLines(variant, v, p, sc)

RulerUnchanged ==
    UNCHANGED <<variant, hourViewDate, maxLanes, lanesVars, projVars, pickVars,
                onTasksChange, internalTasks, scrollLeft, snapUnits, bars,
                dragRef, tipRef, tipCount, calls, lastCall, drags, changes,
                layoutMemo, scrollVars, rulerBands, weekendBands, snapVars,
                hookVars>>

RulerInit ==
    /\ variant \in {1, 2}
    /\ view \in Views
    /\ preset \in PresetsOf(view)
    /\ anchorMonth \in AnchorMonths
    /\ hourViewDate = Today
    /\ maxLanes = DefaultMaxLanes
    /\ LanesParked
    /\ ProjParked
    /\ PickParked
    /\ UiParked
    /\ layoutMemo = <<>>
    /\ ScrollParked
    /\ rulerBands = <<>> /\ weekendBands = <<>>
    /\ SnapParked
    /\ HookParked
    /\ scaleOut = useGanttScale(view, preset, AnchorDateOf(anchorMonth), clientWidth)
    /\ rulerLines = TimelineLines(variant, view, preset, scaleOut)

RulerSetView ==
    \E v \in Views :
        /\ v # view
        /\ view' = v
        /\ preset' = defaultPresetFor(v)
        /\ RulerRender(v, preset', anchorMonth, clientWidth)
        /\ UNCHANGED <<anchorMonth, clientWidth>>
        /\ RulerUnchanged

RulerSetPreset ==
    \E p \in PresetsOf(view) :
        /\ p # preset
        /\ preset' = p
        /\ RulerRender(view, p, anchorMonth, clientWidth)
        /\ UNCHANGED <<view, anchorMonth, clientWidth>>
        /\ RulerUnchanged

RulerSetAnchorMonth ==
    \E m \in AnchorMonths :
        /\ m # anchorMonth
        /\ anchorMonth' = m
        /\ RulerRender(view, preset, m, clientWidth)
        /\ UNCHANGED <<view, preset, clientWidth>>
        /\ RulerUnchanged

RulerResize ==
    \E w \in ScaleWidths :
        /\ w # clientWidth
        /\ clientWidth' = w
        /\ RulerRender(view, preset, anchorMonth, w)
        /\ UNCHANGED <<view, preset, anchorMonth>>
        /\ RulerUnchanged

RulerNext == RulerSetView \/ RulerSetPreset \/ RulerSetAnchorMonth \/ RulerResize

SpecRuler == RulerInit /\ [][RulerNext]_vars

(***************************************************************************)
(* Harness for the snap selection: View, Preset and Snap selects in any     *)
(* order, and pointer-moves of a drag that read the active snapUnits        *)
(***************************************************************************)
SelUnchanged ==
    UNCHANGED <<variant, anchorMonth, hourViewDate, maxLanes, lanesVars,
                projVars, pickVars, onTasksChange, internalTasks, clientWidth,
                scrollLeft, bars, dragRef, tipRef, tipCount, calls, lastCall,
                drags, scaleOut, layoutMemo, scrollVars, bandVars, hookVars,
                snapStart>>

\* the state after mounting: useState(getSnapOptions(initialView,
\* initialPreset ?? defaultPresetFor(initialView))[0].units), and the effect
\* on [view, preset] has run once
SelInit ==
    /\ variant \in {1, 2}
    /\ view \in Views
    /\ preset \in AllPresets
    /\ anchorMonth = 2
    /\ hourViewDate = Today
    /\ maxLanes = DefaultMaxLanes
    /\ LanesParked
    /\ ProjParked
    /\ PickParked
    /\ onTasksChange = "undefined" /\ internalTasks = <<>>
    /\ clientWidth = DefaultWidth
    /\ scrollLeft = 0
    /\ snapUnits = getSnapOptions(view, preset)[1]
    /\ bars = <<>> /\ dragRef = <<>> /\ tipRef = FALSE /\ tipCount = 0
    /\ calls = 0 /\ lastCall = <<>> /\ drags = 0 /\ changes = 0
    /\ scaleOut = NoScale /\ layoutMemo = <<>>
    /\ ScrollParked
    /\ BandsParked
    /\ HookParked
    /\ snapStart \in SnapStarts
    /\ snapDx = <<>>
    /\ snapOut = SnapOrigLeft(view, preset, clientWidth, snapStart)
    /\ snapOut2 = snapOut

\* a render after a selection: the bar is drawn at its segment again
SelRerender(v, p) ==
    /\ snapDx' = <<>>
    /\ snapOut' = SnapOrigLeft(v, p, clientWidth, snapStart)
    /\ snapOut2' = snapOut'

\* the View select with the effect on [view, preset] left out
SelSetViewNoReset ==
    /\ changes < MaxSelections
    /\ changes' = changes + 1
    /\ \E v \in Views :
          /\ v # view
          /\ view' = v
          /\ preset' = defaultPresetFor(v)
          /\ snapUnits' = snapUnits
          /\ SelRerender(v, defaultPresetFor(v))
    /\ SelUnchanged

\* the View select: setView(v); setPreset(defaultPresetFor(v)); then the
\* effect on [view, preset]: setSnapUnits(opts[0].units)
SelSetView ==
    /\ changes < MaxSelections
    /\ changes' = changes + 1
    /\ \E v \in Views :
          /\ v # view
          /\ view' = v
          /\ preset' = defaultPresetFor(v)
          /\ snapUnits' = getSnapOptions(v, defaultPresetFor(v))[1]
          /\ SelRerender(v, defaultPresetFor(v))
    /\ SelUnchanged

\* the Preset select, then the effect on [view, preset]
SelSetPreset ==
    /\ changes < MaxSelections
    /\ changes' = changes + 1
    /\ \E p \in PresetsOf(view) :
          /\ p # preset
          /\ preset' = p
          /\ snapUnits' = getSnapOptions(view, p)[1]
          /\ SelRerender(view, p)
    /\ UNCHANGED view
    /\ SelUnchanged

\* the Snap select: setSnapUnits(parseFloat(e.target.value)) of an option of
\* getSnapOptions(view, preset)
SelSetSnapUnits ==
    /\ changes < MaxSelections
    /\ changes' = changes + 1
    /\ \E k \in DOMAIN getSnapOptions(view, preset) :
          /\ getSnapOptions(view, preset)[k] # snapUnits
          /\ snapUnits' = getSnapOptions(view, preset)[k]
    /\ SelRerender(view, preset)
    /\ UNCHANGED <<view, preset>>
    /\ SelUnchanged

\* a pointer-move of a drag in move mode: snapPx reads the active snapUnits
SelMove ==
    /\ \E dx \in DragDeltas :
          LET origLeft == SnapOrigLeft(view, preset, clientWidth, snapStart)
              newLeft == snapPx(origLeft + dx, CurScale, snapUnits)
          IN  /\ snapDx' = <<dx>>
              /\ snapOut' = newLeft
              /\ snapOut2' = snapPx(newLeft, CurScale, snapUnits)
    /\ UNCHANGED <<view, preset, snapUnits, changes>>
    /\ SelUnchanged

SelNext == SelSetView \/ SelSetPreset \/ SelSetSnapUnits \/ SelMove

SpecSelect == SelInit /\ [][SelNext]_vars

(***************************************************************************)
(* unitsToDateRange (the dates of the drag tooltip)                         *)
(***************************************************************************)
\* Monday 00:00 of the week of d
startOfISOWeek(d) == startOfDay(d) - ((getDay(startOfDay(d)) + 6) % 7) * DayTicks

\* Math.max(0.5, eFrac*24) hours, in ticks
MinEndFracTicks == 30

\* su and eu are view-units in ticks; `new Date()` of the hour branch is a
\* moment of the day Today
unitsToDateRange(v, anchorDate, su, eu) ==
    IF v = "hour"
    THEN [start |-> Today * DayTicks + su, end |-> Today * DayTicks + eu]
    ELSE LET base == IF v = "week" THEN startOfISOWeek(anchorDate)
                     ELSE MonthStartDay(getMonth(anchorDate)) * DayTicks
             sDay == su \div DayTicks
             eDay == eu \div DayTicks
         IN  [start |-> base + sDay * DayTicks + (su % DayTicks),
              end |-> base + eDay * DayTicks + Max2(MinEndFracTicks, eu % DayTicks)]

(***************************************************************************)
(* Claims about assignLanes (checked under SpecLanes)                      *)
(***************************************************************************)
\* half-open intervals [startUnit, endUnit) that share an instant
SegsOverlap(a, b) == a.startUnit < b.endUnit /\ b.startUnit < a.endUnit

\* how many segments of the row contain the instant t
CoverAt(its, t) ==
    Cardinality({ i \in 1..Len(its) :
                    its[i].seg.startUnit <= t /\ t < its[i].seg.endUnit })

\* the overlap degree of a row: intervals are half-open, so the largest
\* cover is attained at some segment's start
OverlapWithinCap(its, maxL) ==
    \A i \in 1..Len(its) : CoverAt(its, its[i].seg.startUnit) <= maxL

\* C1: for every list of segments and every maxLanes in 1..20 the returned
\* laneCount is at most maxLanes, however many segments overlap.
C1_LaneCapRespected == laneOut.laneCount <= maxLanes

\* C1 witness: more segments overlap at one instant than there are lanes,
\* and the layout has been computed for them.
C1_Witness ==
    /\ Len(items) = MaxSegs
    /\ Len(laneOut.items) = MaxSegs
    /\ maxLanes < MaxSegs
    /\ \E i \in 1..Len(items) : CoverAt(items, items[i].seg.startUnit) > maxLanes
    /\ laneOut.laneCount = maxLanes

\* C2: in a row where at most maxLanes segments overlap at any instant, no
\* two placed segments that share a lane have overlapping half-open intervals.
C2_NoOverlapInLane ==
    OverlapWithinCap(items, maxLanes) =>
        \A i, j \in 1..Len(laneOut.items) :
            (i # j /\ laneOut.items[i].lane = laneOut.items[j].lane)
                => ~SegsOverlap(laneOut.items[i].seg, laneOut.items[j].seg)

\* C2 witness: a row within the cap in which two segments overlap (so two
\* lanes are needed) and two others share a lane.
C2_Witness ==
    /\ OverlapWithinCap(items, maxLanes)
    /\ Len(laneOut.items) = MaxSegs
    /\ \E i, j \in 1..Len(items) :
          i # j /\ SegsOverlap(items[i].seg, items[j].seg)
    /\ \E i, j \in 1..Len(laneOut.items) :
          i # j /\ laneOut.items[i].lane = laneOut.items[j].lane

\* C3: every returned item has 0 <= lane < max(1, laneCount), the empty
\* list included.
C3_LaneIndexInRange ==
    /\ Len(laneOut.items) = Len(items)
    /\ \A i \in 1..Len(laneOut.items) :
          /\ 0 <= laneOut.items[i].lane
          /\ laneOut.items[i].lane < Max2(1, laneOut.laneCount)

\* C3 witness: a segment was forced into the last lane at the cap.
C3_Witness ==
    /\ maxLanes >= 2
    /\ Len(items) > maxLanes
    /\ \A i \in 1..Len(items) : CoverAt(items, items[i].seg.startUnit) >= i
    /\ laneOut.laneCount = maxLanes
    /\ \E i \in 1..Len(laneOut.items) : laneOut.items[i].lane = maxLanes - 1

(***************************************************************************)
(* Claims about projectTaskToView (checked under SpecProject)              *)
(***************************************************************************)
\* The visible window, stated from the calendar: the day of the anchor, the
\* Sunday-based 7-day or Monday-based 5-day week of the anchor, the month of
\* the anchor.
WindowStart(v, p, anchor) ==
    IF v = "hour" THEN DayOf(anchor) * DayTicks
    ELSE IF v = "week" THEN
        LET first == IF IsWork(p) THEN 1 ELSE 0
            d == CHOOSE d \in (DayOf(anchor) - 6)..DayOf(anchor) :
                    getDay(d * DayTicks) = first
        IN  d * DayTicks
    ELSE MonthStartDay(getMonth(anchor)) * DayTicks

WindowEnd(v, p, anchor) ==
    IF v = "hour" THEN WindowStart(v, p, anchor) + DayTicks
    ELSE IF v = "week" THEN
        WindowStart(v, p, anchor) + (IF IsWork(p) THEN 5 ELSE 7) * DayTicks
    ELSE MonthStartDay(getMonth(anchor) + 1) * DayTicks

\* the mode's minimum width: 1/12 hour, 1/48 day
ModeMinimum(v) == IF v = "hour" THEN HourTicks \div 12 ELSE DayTicks \div 48

\* the view's unit-to-time function: window start plus u view-units
UnitToTime(v, p, anchor, u) == WindowStart(v, p, anchor) + u

CurAnchor == LayoutAnchor(variant, view, anchorMonth, hourViewDate)
ClipS == Max2(task.start, WindowStart(view, preset, CurAnchor))
ClipE == Min2(task.end, WindowEnd(view, preset, CurAnchor))

C5_MinimumWidth ==
    projOut # <<>> =>
        projOut[1].endUnit - projOut[1].startUnit >= ModeMinimum(view)

\* C6: a non-null segment lies inside the window: 0 <= startUnit and
\* endUnit <= totalUnits.  Stated for the first component's projection.
C6_NoWindowOverflow ==
    (variant = 1 /\ projOut # <<>>) =>
        /\ 0 <= projOut[1].startUnit
        /\ projOut[1].endUnit
              <= TotalUnits(view, preset, AnchorDateOf(anchorMonth)) * UnitTicks(view)

(***************************************************************************)
(* Claims about pickBarAt, checked under SpecPick                          *)
(***************************************************************************)
ContainingIdx ==
    { i \in 1..Len(geomMap) : RectContains(geomMap[i].rect, pointer.x, pointer.y) }
PointerDy2(i) == CenterDy2(geomMap[i].rect, pointer.y)
\* the surface handler has looked the pointer up in the current geometry map
PickIsCurrent == hoveredId = (LET hit == pickBarAt(geomMap, pointer.x, pointer.y)
                              IN IF hit = <<>> THEN <<>> ELSE <<hit[1].taskId>>)

\* C10: the pick is null exactly when no captured rectangle contains the
\* point; otherwise it is a containing rectangle whose vertical centre is
\* closest to the pointer's y, the first in capture order among equals.
C10_PickNearestCenter ==
    PickIsCurrent =>
        /\ (hoveredId = <<>>) <=> (ContainingIdx = {})
        /\ hoveredId # <<>> =>
              \E k \in ContainingIdx :
                 /\ geomMap[k].taskId = hoveredId[1]
                 /\ \A j \in ContainingIdx :
                       /\ PointerDy2(k) <= PointerDy2(j)
                       /\ PointerDy2(j) = PointerDy2(k) => k <= j

\* two containing rectangles tie on the distance, a third contains the point
\* but is farther away, and the earlier of the tied pair is picked
C10_Witness ==
    /\ PickIsCurrent
    /\ \E i, j, f \in ContainingIdx :
          /\ i < j
          /\ PointerDy2(i) = PointerDy2(j)
          /\ geomMap[i].rect # geomMap[j].rect
          /\ PointerDy2(f) > PointerDy2(i)
          /\ f < i
          /\ hoveredId = <<geomMap[i].taskId>>

(***************************************************************************)
(* Claims about the drag controller, checked under Spec                    *)
(***************************************************************************)
Dragging == dragRef # <<>>

\* C7: with a callback supplied, onTasksChange is invoked exactly once per
\* completed gesture: the drags begun so far are the invocations made so far
\* plus the one drag still in progress, so every pointer-up that ends a drag
\* adds one invocation, a pointer-up in Idle adds none, and no drag that was
\* begun is left without its invocation.
C7_OneCallPerGesture ==
    onTasksChange = "function" =>
        drags = calls + (IF Dragging THEN 1 ELSE 0)

\* C8: while a bar is dragged every step other than pointer-up keeps the
\* controller dragging that same bar, the controller leaves Dragging only by
\* pointer-up, and a pointer-move changes no other bar's geometry.
C8_DragHoldsItsBar ==
    [][Dragging =>
          /\ dragRef' = <<>> => onUp
          /\ ~onUp => dragRef' # <<>> /\ dragRef'[1].task = dragRef[1].task
          /\ onMove => \A id \in DOMAIN bars \ {dragRef[1].task} :
                          bars'[id] = bars[id]]_vars

\* C9: the pointer-up that completes a drag or resize leaves every task of
\* the internal list as it was, and the edit is handed to the owner's
\* callback as the change record of the dragged task.
C9_DropKeepsTaskList ==
    [][Dragging /\ dragRef' = <<>> =>
          /\ internalTasks' = internalTasks
          /\ onTasksChange = "function" =>
                lastCall' = <<[task |-> dragRef[1].task,
                               change |-> ChangeRecord(dragRef[1],
                                             ElStyle(dragRef[1], bars),
                                             CurScale, snapUnits)]>>]_vars

\* a drag has been completed and reported, its bar stays where it was
\* dropped, and the internal task list is the one the owner passed
C9_Witness ==
    /\ ~Dragging
    /\ calls >= 1
    /\ lastCall # <<>>
    /\ \E id \in DOMAIN bars :
          /\ lastCall[1].task = id
          /\ bars[id].mounted
          /\ bars[id].left # bars[id].pLeft
    /\ internalTasks = UiTasks

\* C11: at most one drag tooltip element exists, and one exists only while
\* the controller is Dragging, so every pointer-up leaves none behind.
C11_TooltipOnlyWhileDragging ==
    /\ tipCount <= 1
    /\ tipCount >= 1 => Dragging
    /\ tipRef <=> tipCount = 1

\* a drag was begun and moved, which showed the tooltip twice, and the
\* pointer-up that ended it has removed the element
C11_Witness ==
    /\ ~Dragging
    /\ drags >= 1
    /\ \E id \in DOMAIN bars : bars[id].mounted /\ bars[id].left # bars[id].pLeft
    /\ tipCount = 0

(***************************************************************************)
(* Claims about useGanttScale (checked under SpecScale)                    *)
(***************************************************************************)
\* C12: the scale's pxPerUnit is strictly positive for every view, preset,
\* month anchor and measured width, a width of 0 or a missing element
\* included, and the division that yields it never has a zero divisor.
C12_PxPerUnitPositive ==
    /\ scaleOut.pxDen > 0
    /\ scaleOut.pxNum > 0
    /\ scaleOut.visibleUnits >= 1
    /\ scaleOut.totalUnits >= 1

\* a resize measured a width of 0 and the scale fell back to 1200 px over
\* the seven visible days of a month preset
C12_Witness ==
    /\ clientWidth = 0
    /\ view = "month" /\ preset = "7 Days"
    /\ scaleOut.pxNum = DefaultWidth
    /\ scaleOut.pxDen = 7

(***************************************************************************)
(* Claims about rowLayout (checked under SpecLayout)                       *)
(***************************************************************************)
\* C13: every item of a resource row's layout is a task of that resource, so
\* a task whose resourceId names no resource is in no row (and the loop has
\* nothing that could throw for it).
C13_RowHoldsOwnTasksOnly ==
    /\ DOMAIN layoutMemo = 1..Len(UiResources)
    /\ \A r \in DOMAIN layoutMemo :
         \A k \in 1..Len(layoutMemo[r].items) :
            layoutMemo[r].items[k].task.resourceId = UiResources[r]
    /\ \A r \in DOMAIN layoutMemo :
         \A k \in 1..Len(layoutMemo[r].items) :
            layoutMemo[r].items[k].task.id # OrphanTask.id

\* the first component was switched to month view, the task list holds the
\* orphan, the orphan intersects the month shown, and rows hold other tasks
C13_Witness ==
    /\ \E i \in 1..Len(internalTasks) : internalTasks[i] = OrphanTask
    /\ variant = 1 /\ view = "month"
    /\ projectTaskToView(OrphanTask, view, preset,
                         LayoutAnchor(variant, view, anchorMonth, hourViewDate)) # <<>>
    /\ \E r \in DOMAIN layoutMemo : Len(layoutMemo[r].items) >= 1

C14_ScrollSync ==
    [][ScrollEvent => /\ timelineX' = scrollLeft'
                      /\ tableScrollTop' = scrollTop']_vars

(***************************************************************************)
(* Claims about the weekend bands (checked under SpecBands)                *)
(***************************************************************************)
\* C15: for the same view, preset, month anchor and pxPerUnit, the weekend
\* bands drawn in the timeline ruler have, band for band, the same left and
\* width as those computeWeekendBandsPx gives the bar-pane overlay.
C15_BandsIdentical ==
    /\ Len(rulerBands) = Len(weekendBands)
    /\ \A k \in 1..Len(rulerBands) :
          /\ rulerBands[k].left = weekendBands[k].left
          /\ rulerBands[k].width = weekendBands[k].width

\* a month whose days are 900/28 px wide: the bands' edges are floored from
\* fractional positions, and one band is a pixel wider than another
C15_Witness ==
    /\ view = "month" /\ preset = "Full Month"
    /\ clientWidth = 900
    /\ Len(rulerBands) >= 8
    /\ \E j, k \in 1..Len(rulerBands) : rulerBands[j].width # rulerBands[k].width

(***************************************************************************)
(* Claims about snapping (checked under SpecSnap)                          *)
(***************************************************************************)
\* C16: snapping is idempotent: for the pixel position p a move produces,
\* every pxPerUnit in use and every offered snapUnit, snapPx(snapPx(p)) is
\* snapPx(p).
C16_SnapIdempotent ==
    snapDx # <<>> => snapOut2 = snapOut

\* a move was snapped with a snap step narrower than one pixel (1 minute at
\* 50 px per hour) and it did displace the bar
C16_Witness ==
    /\ snapDx # <<>>
    /\ snapUnits * CurScale.pxNum < CurScale.unitTicks * CurScale.pxDen
    /\ snapOut # SnapOrigLeft(view, preset, clientWidth, snapStart)
    /\ snapOut2 = snapOut

\* the move's displacement in px is, to the pixel, k snap steps
DisplacedBySteps(k) ==
    LET sc == CurScale
        num == snapUnits * sc.pxNum
        den == sc.unitTicks * sc.pxDen
        d == snapOut - SnapOrigLeft(view, preset, clientWidth, snapStart)
    IN  d * den - k * num < den /\ k * num - d * den < den

\* k snap steps is a multiple of snapUnit nearest to dx / pxPerUnit
NearestSteps(k, dx) ==
    LET sc == CurScale
        num == snapUnits * sc.pxNum
        den == sc.unitTicks * sc.pxDen
    IN  2 * dx * den - 2 * k * num <= num /\ 2 * k * num - 2 * dx * den <= num

\* C17: when a bar is moved by a pointer delta dx, its displacement, in
\* view-units, is the multiple of the active snapUnit nearest to
\* dx / pxPerUnit, whatever the bar's original position.
C17_DisplacementIsSnappedDelta ==
    snapDx # <<>> =>
        \E k \in (-MaxSnapSteps)..MaxSnapSteps :
            NearestSteps(k, snapDx[1]) /\ DisplacedBySteps(k)

LanePrefix(k) ==
    LaneLoop([laneEnds |-> <<>>, out |-> <<>>],
             SubSeq(SortItems(items), 1, k), maxLanes)

\* the k-th segment in sorted order finds no free lane while maxLanes lanes
\* are open
AtCap(k) ==
    /\ FindIndex(LanePrefix(k - 1).laneEnds, SortItems(items)[k].seg.startUnit) = -1
    /\ Len(LanePrefix(k - 1).laneEnds) = maxLanes

\* Scenario C: five mutually overlapping segments, by start order
ScenarioC ==
    [k \in 1..5 |-> [task |-> k, seg |-> [startUnit |-> k - 1, endUnit |-> 5 + k]]]

\* C20: a segment that finds no free lane while maxLanes lanes are open is
\* placed in lane maxLanes-1, that lane's end becomes max(previous end, the
\* segment's end), the other lanes' ends stay and no lane is opened; five
\* mutually overlapping segments with maxLanes = 2 give laneCount 2 with the
\* 4th and 5th in lane 1.
C20_CapForcesLastLane ==
    /\ \A k \in 1..Len(items) :
          AtCap(k) =>
            LET before == LanePrefix(k - 1).laneEnds
                after == LanePrefix(k).laneEnds
                sg == SortItems(items)[k].seg
            IN  /\ laneOut.items[k].lane = maxLanes - 1
                /\ Len(after) = maxLanes
                /\ after[maxLanes] = Max2(before[maxLanes], sg.endUnit)
                /\ \A j \in 1..(maxLanes - 1) : after[j] = before[j]
    /\ assignLanes(ScenarioC, 2).laneCount = 2
    /\ assignLanes(ScenarioC, 2).items[4].lane = 1
    /\ assignLanes(ScenarioC, 2).items[5].lane = 1

\* with two lanes open, a third segment found no free lane, went to lane 1,
\* and ends before the segment already there: the lane's end stayed the later
C20_Witness ==
    /\ maxLanes = 2
    /\ Len(items) = 3
    /\ AtCap(3)
    /\ laneOut.items[3].lane = 1
    /\ laneOut.laneCount = 2
    /\ SortItems(items)[3].seg.endUnit < LanePrefix(2).laneEnds[2]
    /\ LanePrefix(3).laneEnds[2] = LanePrefix(2).laneEnds[2]

(***************************************************************************)
(* Claims about the geometry a drag writes, checked under Spec             *)
(***************************************************************************)
\* the style of the element the drag state refers to, after the step
ElStyleNext(ds) ==
    IF dragRef'[1].detached
    THEN [left |-> dragRef'[1].elLeft, width |-> dragRef'[1].elWidth]
    ELSE [left |-> bars'[ds.task].left, width |-> bars'[ds.task].width]

\* C21: in resize-left mode every pointer-move leaves the bar's right edge
\* where it was: left + width equals the original left + original width,
\* for every pointer delta and snap unit.
C21_ResizeLeftKeepsRightEdge ==
    [][(Dragging /\ dragRef[1].mode = "resize-l" /\ onMove /\ dragRef' # <<>>) =>
          ElStyleNext(dragRef[1]).left + ElStyleNext(dragRef[1]).width
             = dragRef[1].origLeft + dragRef[1].origWidth]_vars


\* the geometry onUp reads from the dragged element, and the scale it divides by
UpGeometry == ElStyle(dragRef[1], bars)

\* a pointer-up that ends a drag and reports it to the owner
UpReports == Dragging /\ onTasksChange = "function" /\ onUp /\ lastCall' # <<>>

\* the reported start: startUnit = left / pxPerUnit
UpStartIsLeftOverScale ==
    lastCall'[1].change.startUnit.num * CurScale.pxNum
       = UpGeometry.left * CurScale.pxDen * lastCall'[1].change.startUnit.den

\* the reported duration equals width / pxPerUnit
UpDurationIsWidthOverScale ==
    lastCall'[1].change.durationU.num * CurScale.pxNum
       = UpGeometry.width * CurScale.pxDen * lastCall'[1].change.durationU.den

\* C22: the change record emitted on pointer-up has startUnit = left /
\* pxPerUnit and duration = width / pxPerUnit of the dragged bar's current
\* geometry, for every view, scale and final width (the 4-pixel minimum
\* included).
C22_ChangeIsGeometryOverScale ==
    [][UpReports => (UpStartIsLeftOverScale /\ UpDurationIsWidthOverScale)]_vars

\* C22 (amended): startUnit = left / pxPerUnit, and the duration is
\* width / pxPerUnit unless that is below a tenth of a view-unit, in which
\* case the record carries exactly 0.1.
C22_ChangeIsGeometryOverScaleFloored ==
    [][UpReports =>
         /\ UpStartIsLeftOverScale
         /\ IF 10 * UpGeometry.width * CurScale.pxDen < CurScale.pxNum
            THEN 10 * lastCall'[1].change.durationU.num
                    = lastCall'[1].change.durationU.den
            ELSE UpDurationIsWidthOverScale]_vars

\* a drag was reported with the duration held at the 0.1 floor
C22_Witness ==
    /\ lastCall # <<>>
    /\ lastCall[1].change.durationU = [num |-> 1, den |-> 10]
    /\ ~Dragging


\* C25: in every state during or after a drag, whatever the mode and the
\* pointer delta, the dragged bar is at least 4 pixels wide (so is every
\* bar on screen, and the element a drag still holds after a re-render
\* replaced it).
C25_BarAtLeastMinWidth ==
    /\ \A id \in DOMAIN bars : bars[id].mounted => bars[id].width >= MinBarPx
    /\ Dragging => ElStyle(dragRef[1], bars).width >= MinBarPx

\* a resize has shrunk a wider bar below the minimum and the floor holds it at 4
C25_Witness ==
    /\ Dragging
    /\ dragRef[1].mode \in {"resize-l", "resize-r"}
    /\ dragRef[1].origWidth > 2 * MinBarPx
    /\ ElStyle(dragRef[1], bars).width = MinBarPx


(***************************************************************************)
(* Claims about the geometry index and the pointer-down, checked under Spec *)
(***************************************************************************)
\* the index a rebuild would capture now: the viewport rectangle of every
\* rendered bar
GeomIsCurrent == geomMap = rebuildGeom(bars, CurPlaced, scrollLeft)

ResolvedLeft(id) ==
    IF variant = 1
    THEN geomMap[CHOOSE k \in DOMAIN geomMap : geomMap[k].taskId = id].rect.left
    ELSE bars[id].left - scrollLeft
ResolvedWidth(id) ==
    IF variant = 1
    THEN geomMap[CHOOSE k \in DOMAIN geomMap : geomMap[k].taskId = id].rect.width
    ELSE bars[id].width

\* a step in which a pointer-down started a drag
DownStartsDrag == drags' = drags + 1 /\ dragRef' # <<>>

\* the mode the offset calls for: the left edge first, then the right edge
ModeByOffset ==
    LET d == dragRef'[1]
        xIn == d.startX - ResolvedLeft(d.task)
        w == ResolvedWidth(d.task)
    IN  /\ xIn >= 0 /\ xIn <= w
        /\ d.mode = "resize-l" <=> xIn < 8
        /\ d.mode = "resize-r" <=> (xIn >= 8 /\ xIn > w - 8)
        /\ d.mode = "move" <=> (xIn >= 8 /\ xIn <= w - 8)

\* a pointer-down of the first component at a point no captured rectangle holds
DownResolvesNoBar ==
    variant = 1 /\ pointer' # pointer /\ pickBarAt(geomMap, pointer'.x, pointer'.y) = <<>>

\* C24: a pointer-down over a resolved bar starts a drag in resize-left mode
\* when the pointer is less than 8px from the bar's left edge, else in
\* resize-right mode when it is less than 8px from the right edge, else in
\* move mode; a pointer-down that resolves no bar starts no drag.
C24_ModeByOffset ==
    [][/\ DownStartsDrag => ModeByOffset
       /\ DownResolvesNoBar => (dragRef' = dragRef /\ drags' = drags)]_vars

\* a drag in move mode was started exactly 8px from the left edge of a bar
\* wider than 16px
C24_Witness ==
    /\ Dragging
    /\ dragRef[1].mode = "move"
    /\ ~dragRef[1].detached
    /\ dragRef[1].startX = bars[dragRef[1].task].left - scrollLeft + EdgePx
    /\ bars[dragRef[1].task].width > 2 * EdgePx


(***************************************************************************)
(* Claims about the week view's scroll range, checked under SpecWeek        *)
(***************************************************************************)
\* C26: in week view visibleUnits = totalUnits and contentPx equals the
\* viewport width, the bar pane is not scrolled sideways and the ruler's
\* horizontal translation is 0, in every state, scroll events included.
C26_WeekHasNoHorizontalScroll ==
    view = "week" =>
        /\ CurScale.visibleUnits = CurScale.totalUnits
        /\ ContentPx(CurScale) = clientWidth
        /\ scrollLeft = 0
        /\ timelineX = 0


(***************************************************************************)
(* Claims about the ruler's gridlines, checked under SpecRuler              *)
(***************************************************************************)
\* the left edge of a bar whose segment starts at unit boundary u
BarLeftAt(u) ==
    segToPixels([startUnit |-> u * scaleOut.unitTicks,
                 endUnit |-> (u + 1) * scaleOut.unitTicks], scaleOut).leftPx

\* C27: for every unit boundary u (hour or day index) and every pxPerUnit,
\* the ruler's gridline for u and the left edge of a bar whose segment starts
\* exactly at u are at the same integer pixel.
C27_GridlinesMeetBarEdges ==
    \A u \in 0..scaleOut.totalUnits : rulerLines[u + 1] = BarLeftAt(u)


(***************************************************************************)
(* Claims about the tasks a layout places, checked under SpecLayout         *)
(***************************************************************************)
\* the task's interval intersects the window
InWindow(t) ==
    Max2(t.start, WindowStart(view, preset, CurAnchor))
       < Min2(t.end, WindowEnd(view, preset, CurAnchor))

\* the places <<row, index>> at which the layout holds task id
PlacesOf(id) ==
    { <<r, k>> \in (DOMAIN layoutMemo) \X (1..Len(internalTasks)) :
         k <= Len(layoutMemo[r].items) /\ layoutMemo[r].items[k].task.id = id }

\* C28: in every view, hour view included, each task of the task list whose
\* resourceId names a resource and whose interval intersects the visible
\* window is placed in exactly one row, exactly once.
C28_EveryTaskInWindowPlacedOnce ==
    \A i \in 1..Len(internalTasks) :
        LET t == internalTasks[i] IN
        ((\E r \in 1..Len(UiResources) : UiResources[r] = t.resourceId) /\ InWindow(t))
            => Cardinality(PlacesOf(t.id)) = 1


(***************************************************************************)
(* Claims about the snap selection, checked under SpecSelect                *)
(***************************************************************************)
\* C29: after any sequence of view, preset and snap selections the active
\* snapUnits is one of the options getSnapOptions offers for the current
\* view and preset, and every change of view or preset leaves it at the
\* first option of the new view and preset.
C29_SnapIsAnOfferedOption ==
    /\ [](snapUnits \in SnapOptionsOf(view, preset))
    /\ [][(view' # view \/ preset' # preset)
             => snapUnits' = getSnapOptions(view', preset')[1]]_vars

\* after three selections a drag has moved its bar with an option other than
\* the first, in a view the component did not start in
C29_Witness ==
    /\ changes = MaxSelections
    /\ snapDx # <<>>
    /\ view = "week"
    /\ snapUnits = getSnapOptions(view, preset)[3]
    /\ snapOut = snapPx(SnapOrigLeft(view, preset, clientWidth, snapStart) + snapDx[1],
                        CurScale, snapUnits)


(***************************************************************************)
(* Claims about the tooltip's dates, checked under SpecProject              *)
(***************************************************************************)
\* the task lies inside the visible window
TaskInsideWindow ==
    /\ task.start < task.end
    /\ task.start >= WindowStart(view, preset, CurAnchor)
    /\ task.end <= WindowEnd(view, preset, CurAnchor)

\* the date range the tooltip shows for the task's projected units
TipRange ==
    unitsToDateRange(view, AnchorDateOf(anchorMonth),
                     projOut[1].startUnit, projOut[1].endUnit)

\* C30: for a task lying inside the visible window, unitsToDateRange applied
\* to the task's projected startUnit and endUnit returns the task's own
\* start and end instants, in hour view (for the selected view date), in
\* Work Week and Full Week, and in month view.
C30_TooltipInvertsProjection ==
    (TaskInsideWindow /\ projOut # <<>>) =>
        TipRange = [start |-> task.start, end |-> task.end]

====
